---- MODULE Spec2Model ----
(***************************************************************************)
(* Model of the prompt-to-schedule extraction pipeline of AIdo-backend:    *)
(* the time utilities (utils/timeUtils.ts), the Gemini service            *)
(* (services/geminiService.ts) and the handler that stores what the        *)
(* service extracts (controllers/scheduleController.ts, createSchedule).   *)
(*                                                                         *)
(* Text.  A string is a sequence of one-character strings.  A text (a      *)
(* user prompt, a relative expression) is a sequence of tokens, each token *)
(* a non-empty string of letters or of digits; consecutive tokens are      *)
(* separated by white space, so \s+ of a regular expression is the gap     *)
(* between two tokens and \b holds at both ends of every token and nowhere *)
(* inside one.                                                             *)
(*                                                                         *)
(* Time.  An instant (a JavaScript Date) is a number of minutes since      *)
(* 1970-01-01T00:00Z; the seconds are dropped because no output of the     *)
(* program shows them.  The process's time zone is a constant offset tz in *)
(* minutes east of UTC (local = UTC + tz).                                 *)
(***************************************************************************)
EXTENDS Integers, Sequences, FiniteSets, TLC

VARIABLES
    tz,          \* the process's local time zone offset, minutes east of UTC
    clock,       \* the system clock: what new Date() returns now
    \* ---- one invocation of GeminiService.processSchedulePrompt ----
    pc,          \* "idle" | "pending" (awaiting generateContent) | "done"
    userPrompt,  \* the argument of processSchedulePrompt
    embedded,    \* the date/time createPrompt wrote into the instruction
    promptAt,    \* the clock reading createPrompt took
    reply,       \* the text the model returned
    overrideAt,  \* the clock reading calculateRelativeTime took (-1: none)
    parsed,      \* the candidate as JSON.parse returned it
    processed,   \* the candidate as postProcessScheduleData returned it
    result,      \* the AIResponse returned
    steps,       \* the steps the invocation has run, in order
    modelCalls,  \* the calls of model.generateContent the invocation made
    thrown,      \* what the model call rejected with (NoThrow: nothing)
    elapsed,     \* minutes the clock has advanced since the start
    \* ---- direct calls of the time utilities ----
    fnText,      \* the text / relative expression argument
    fnOut,       \* what the last call returned
    fnData,      \* the candidate argument of validateScheduleData
    \* ---- concurrent invocations on the shared GeminiService ----
    service,     \* _geminiService: "null" or "instance"
    inv,         \* the invocations: each one's locals, position and result
    lastText,    \* the text the model returned last, to whichever invocation
    \* ---- one request to ScheduleController.createSchedule ----
    ctl,         \* the handler's position, locals and response
    stored,      \* the schedules collection: the documents saved, in order
    \* ---- one request to a route guarded by authenticateToken ----
    http,        \* the request, the middleware's outcome, the response
    \* ---- getGeminiService ----
    gemini,      \* GEMINI_API_KEY, _geminiService, the calls and what they gave
    \* ---- config/database.ts ----
    db           \* the Database instance and the operations in progress

vars == <<tz, clock, pc, userPrompt, embedded, promptAt, reply, overrideAt,
          parsed, processed, result, steps, modelCalls, thrown, elapsed,
          fnText, fnOut, fnData, service, inv, lastText, ctl, stored,
          http, gemini, db>>

pipeVars == <<pc, userPrompt, embedded, promptAt, reply, overrideAt,
              parsed, processed, result, steps, modelCalls, thrown>>

fnVars == <<fnText, fnOut>>

concVars == <<service, inv, lastText>>

ctlVars == <<ctl, stored>>

restVars == <<http, gemini, db>>

extVars == <<fnData, concVars, ctlVars, restVars>>

-----------------------------------------------------------------------------
(* Strings *)

DigitChars == <<"0", "1", "2", "3", "4", "5", "6", "7", "8", "9">>

UpperChars == <<"A", "B", "C", "D", "E", "F", "G", "H", "I", "J", "K", "L", "M",
                "N", "O", "P", "Q", "R", "S", "T", "U", "V", "W", "X", "Y", "Z">>

LowerChars == <<"a", "b", "c", "d", "e", "f", "g", "h", "i", "j", "k", "l", "m",
                "n", "o", "p", "q", "r", "s", "t", "u", "v", "w", "x", "y", "z">>

IsDigit(c) == \E i \in 1..10 : DigitChars[i] = c

DigitVal(c) == (CHOOSE i \in 1..10 : DigitChars[i] = c) - 1

\* \d+ over a whole string
AllDigits(s) == Len(s) > 0 /\ \A i \in 1..Len(s) : IsDigit(s[i])

LowerChar(c) ==
    IF \E i \in 1..26 : UpperChars[i] = c
    THEN LowerChars[CHOOSE i \in 1..26 : UpperChars[i] = c]
    ELSE c

\* String.prototype.toLowerCase
ToLower(s) == [i \in 1..Len(s) |-> LowerChar(s[i])]

StartsWith(s, p) == Len(s) >= Len(p) /\ SubSeq(s, 1, Len(p)) = p

EndsWith(s, p) ==
    Len(s) >= Len(p) /\ SubSeq(s, Len(s) - Len(p) + 1, Len(s)) = p

\* parseInt of a string of decimal digits
RECURSIVE parseInt(_)
parseInt(s) ==
    IF s = <<>> THEN 0
    ELSE 10 * parseInt(SubSeq(s, 1, Len(s) - 1)) + DigitVal(s[Len(s)])

\* n >= 0 written in decimal, padded with zeros to at least w digits
RECURSIVE PadNum(_, _)
PadNum(n, w) ==
    IF w <= 1 /\ n < 10 THEN <<DigitChars[n + 1]>>
    ELSE PadNum(n \div 10, w - 1) \o <<DigitChars[(n % 10) + 1]>>

-----------------------------------------------------------------------------
(* The words of the regular expressions *)

s_in == <<"i", "n">>
s_from == <<"f", "r", "o", "m">>
s_now == <<"n", "o", "w">>
s_tomorrow == <<"t", "o", "m", "o", "r", "r", "o", "w">>
s_next == <<"n", "e", "x", "t">>
s_minute == <<"m", "i", "n", "u", "t", "e">>
s_minutes == s_minute \o <<"s">>
s_hour == <<"h", "o", "u", "r">>
s_hours == s_hour \o <<"s">>
s_day == <<"d", "a", "y">>
s_days == s_day \o <<"s">>
s_week == <<"w", "e", "e", "k">>
s_weeks == s_week \o <<"s">>
s_month == <<"m", "o", "n", "t", "h">>
s_months == s_month \o <<"s">>
s_year == <<"y", "e", "a", "r">>
s_years == s_year \o <<"s">>

\* (minute|minutes|hour|hours|day|days|week|weeks|month|months|year|years),
\* in the order the alternation tries them
UnitWords == <<s_minute, s_minutes, s_hour, s_hours, s_day, s_days,
               s_week, s_weeks, s_month, s_months, s_year, s_years>>

IsUnitWord(s) == \E i \in 1..Len(UnitWords) : UnitWords[i] = s

-----------------------------------------------------------------------------
(* Date: the calendar of ECMAScript's Date (proleptic Gregorian) *)

MinutesPerDay == 24 * 60

\* MakeDay for a month in 1..12: days from 1970-01-01 to y-m-d
DaysFromCivil(y, m, d) ==
    LET yy  == IF m <= 2 THEN y - 1 ELSE y
        era == yy \div 400
        yoe == yy - era * 400
        mp  == IF m > 2 THEN m - 3 ELSE m + 9
        doy == (153 * mp + 2) \div 5 + d - 1
        doe == yoe * 365 + yoe \div 4 - yoe \div 100 + doy
    IN  era * 146097 + doe - 719468

\* YearFromTime, MonthFromTime, DateFromTime of a day number
CivilFromDays(z) ==
    LET zz  == z + 719468
        era == zz \div 146097
        doe == zz - era * 146097
        yoe == (doe - doe \div 1460 + doe \div 36524 - doe \div 146096) \div 365
        doy == doe - (365 * yoe + yoe \div 4 - yoe \div 100)
        mp  == (5 * doy + 2) \div 153
        d   == doy - (153 * mp + 2) \div 5 + 1
        m   == IF mp < 10 THEN mp + 3 ELSE mp - 9
        y   == yoe + era * 400 + (IF m <= 2 THEN 1 ELSE 0)
    IN  [y |-> y, m |-> m, d |-> d]

\* The instant of a UTC wall-clock reading
Instant(y, m, d, h, mi) == DaysFromCivil(y, m, d) * MinutesPerDay + h * 60 + mi

\* LocalTime(t): the local wall-clock reading of instant t, as a minute count
LocalTime(t, zone) == t + zone

\* getFullYear, getMonth (0-based), getDate, getHours, getMinutes
LocalFields(t, zone) ==
    LET l == LocalTime(t, zone)
        c == CivilFromDays(l \div MinutesPerDay)
        r == l % MinutesPerDay
    IN  [y |-> c.y, mo |-> c.m - 1, d |-> c.d, h |-> r \div 60, mi |-> r % 60]

\* UTC(MakeDate(MakeDay(y, mo, d), MakeTime(h, mi, ..))): the instant whose
\* local reading has these fields; fields out of range carry over
MakeLocal(y, mo, d, h, mi, zone) ==
    LET ym  == y + mo \div 12
        mn  == mo % 12
        day == DaysFromCivil(ym, mn + 1, 1) + d - 1
    IN  day * MinutesPerDay + h * 60 + mi - zone

setMinutes(t, v, zone) ==
    LET f == LocalFields(t, zone) IN MakeLocal(f.y, f.mo, f.d, f.h, v, zone)

setHours(t, v, zone) ==
    LET f == LocalFields(t, zone) IN MakeLocal(f.y, f.mo, f.d, v, f.mi, zone)

setDate(t, v, zone) ==
    LET f == LocalFields(t, zone) IN MakeLocal(f.y, f.mo, v, f.h, f.mi, zone)

setMonth(t, v, zone) ==
    LET f == LocalFields(t, zone) IN MakeLocal(f.y, v, f.d, f.h, f.mi, zone)

setFullYear(t, v, zone) ==
    LET f == LocalFields(t, zone) IN MakeLocal(v, f.mo, f.d, f.h, f.mi, zone)

\* YYYY-MM-DD of a day number (a year past 9999 is written +YYYYYY)
DateString(day) ==
    LET c == CivilFromDays(day)
        yr == IF c.y <= 9999 THEN PadNum(c.y, 4) ELSE <<"+">> \o PadNum(c.y, 6)
    IN  yr \o <<"-">> \o PadNum(c.m, 2) \o <<"-">> \o PadNum(c.d, 2)

\* HH:MM of a minute of the day
TimeString(minuteOfDay) ==
    PadNum(minuteOfDay \div 60, 2) \o <<":">> \o PadNum(minuteOfDay % 60, 2)

\* toISOString().split('T')[0]: the date of t in UTC
isoDate(t) == DateString(t \div MinutesPerDay)

\* toTimeString().slice(0, 5): the local HH:MM of t
localHHMM(t, zone) == TimeString(LocalTime(t, zone) % MinutesPerDay)

\* { date: d.toISOString().split('T')[0], time: d.toTimeString().slice(0, 5) }
formatDateTime(t, zone) == [date |-> isoDate(t), time |-> localHHMM(t, zone)]

-----------------------------------------------------------------------------
(* utils/timeUtils.ts *)

\* null: the value of a failed match (no match is the empty text)
NoMatch == <<>>

\* relativeExpression.toLowerCase().trim()
lowerExpression(expr) == [i \in 1..Len(expr) |-> ToLower(expr[i])]

\* The first alternative of the unit group that matches at the start of
\* token s (the group is followed by nothing, so the first one wins)
UnitAt(s) ==
    UnitWords[CHOOSE i \in 1..Len(UnitWords) :
                /\ StartsWith(s, UnitWords[i])
                /\ \A j \in 1..(i - 1) : ~StartsWith(s, UnitWords[j])]

\* /in\s+(\d+)\s+(minute|...|years)/ matches with "in" ending token i
CalcMatchAt(low, i) ==
    /\ i + 2 <= Len(low)
    /\ EndsWith(low[i], s_in)
    /\ AllDigits(low[i + 1])
    /\ \E k \in 1..Len(UnitWords) : StartsWith(low[i + 2], UnitWords[k])

\* lowerExpression.match(...): the leftmost match, 0 when there is none
CalcMatch(low) ==
    IF \E i \in 1..Len(low) : CalcMatchAt(low, i)
    THEN CHOOSE i \in 1..Len(low) :
            /\ CalcMatchAt(low, i)
            /\ \A j \in 1..(i - 1) : ~CalcMatchAt(low, j)
    ELSE 0

\* targetDate with the week case adding the amount without the factor 7
targetDate_WeekAsDay(now, amount, unit, zone) ==
    LET f == LocalFields(now, zone)
    IN  CASE unit \in {s_minute, s_minutes} -> setMinutes(now, f.mi + amount, zone)
          [] unit \in {s_hour, s_hours}     -> setHours(now, f.h + amount, zone)
          [] unit \in {s_day, s_days}       -> setDate(now, f.d + amount, zone)
          [] unit \in {s_week, s_weeks}     -> setDate(now, f.d + amount, zone)
          [] unit \in {s_month, s_months}   -> setMonth(now, f.mo + amount, zone)
          [] unit \in {s_year, s_years}     -> setFullYear(now, f.y + amount, zone)
          [] OTHER                          -> now

\* The switch on the unit: targetDate after the matching case
targetDate(now, amount, unit, zone) ==
    LET f == LocalFields(now, zone)
    IN  CASE unit \in {s_minute, s_minutes} -> setMinutes(now, f.mi + amount, zone)
          [] unit \in {s_hour, s_hours}     -> setHours(now, f.h + amount, zone)
          [] unit \in {s_day, s_days}       -> setDate(now, f.d + amount, zone)
          [] unit \in {s_week, s_weeks}     -> setDate(now, f.d + amount * 7, zone)
          [] unit \in {s_month, s_months}   -> setMonth(now, f.mo + amount, zone)
          [] unit \in {s_year, s_years}     -> setFullYear(now, f.y + amount, zone)
          [] OTHER                          -> now

\* resolvedInstant with a regular expression whose "in" is optional, so that
\* "N unit from now" is resolved too
resolvedInstant_InOptional(expr, baseDate, zone) ==
    LET low == lowerExpression(expr)
        i   == CalcMatch(low)
    IN  IF i # 0
        THEN targetDate(baseDate, parseInt(low[i + 1]), UnitAt(low[i + 2]), zone)
        ELSE IF /\ Len(low) >= 2
                /\ AllDigits(low[1])
                /\ \E k \in 1..Len(UnitWords) : StartsWith(low[2], UnitWords[k])
        THEN targetDate(baseDate, parseInt(low[1]), UnitAt(low[2]), zone)
        ELSE baseDate

\* The instant calculateRelativeTime formats: baseDate when nothing matches
resolvedInstant(expr, baseDate, zone) ==
    LET low == lowerExpression(expr)
        i   == CalcMatch(low)
    IN  IF i = 0 THEN baseDate
        ELSE targetDate(baseDate, parseInt(low[i + 1]), UnitAt(low[i + 2]), zone)

calculateRelativeTime(expr, baseDate, zone) ==
    formatDateTime(resolvedInstant(expr, baseDate, zone), zone)

\* /\bin\s+\d+\s+(minute|...|years)\b/i matches from token i
InPatternAt(text, i) ==
    /\ i + 2 <= Len(text)
    /\ ToLower(text[i]) = s_in
    /\ AllDigits(text[i + 1])
    /\ IsUnitWord(ToLower(text[i + 2]))

\* /\b\d+\s+(minute|...|years)\s+from\s+now\b/i matches from token i
FromNowPatternAt(text, i) ==
    /\ i + 3 <= Len(text)
    /\ AllDigits(text[i])
    /\ IsUnitWord(ToLower(text[i + 1]))
    /\ ToLower(text[i + 2]) = s_from
    /\ ToLower(text[i + 3]) = s_now

\* /\b(tomorrow|next\s+week|next\s+month|next\s+year)\b/i matches from token i
QualPatternAt(text, i) ==
    \/ ToLower(text[i]) = s_tomorrow
    \/ /\ i + 1 <= Len(text)
       /\ ToLower(text[i]) = s_next
       /\ ToLower(text[i + 1]) \in {s_week, s_month, s_year}

\* text.match(pattern)[0] for a pattern that matches n tokens from each of
\* the given positions: the leftmost match, NoMatch when there is none
FirstMatch(text, positions, n) ==
    IF positions = {} THEN NoMatch
    ELSE LET i == CHOOSE k \in positions : \A j \in positions : k <= j
         IN  SubSeq(text, i, i + n - 1)

\* Where each pattern matches in a text
InPositions(text) == {i \in 1..Len(text) : InPatternAt(text, i)}

FromNowPositions(text) == {i \in 1..Len(text) : FromNowPatternAt(text, i)}

QualPositions(text) == {i \in 1..Len(text) : QualPatternAt(text, i)}

hasRelativeTimeExpression(text) ==
    \/ \E i \in 1..Len(text) : InPatternAt(text, i)
    \/ \E i \in 1..Len(text) : FromNowPatternAt(text, i)
    \/ \E i \in 1..Len(text) : QualPatternAt(text, i)

\* extractRelativeTimeExpression with the three patterns of
\* hasRelativeTimeExpression
extractRelativeTimeExpression_AllPatterns(text) ==
    IF InPositions(text) # {} THEN FirstMatch(text, InPositions(text), 3)
    ELSE IF FromNowPositions(text) # {}
    THEN FirstMatch(text, FromNowPositions(text), 4)
    ELSE FirstMatch(text, QualPositions(text), 1)

\* extractRelativeTimeExpression with the two patterns joined into one
\* alternation, which returns the leftmost match of either
extractRelativeTimeExpression_Leftmost(text) ==
    IF FirstMatch(text, InPositions(text) \cup FromNowPositions(text), 1)
         = FirstMatch(text, InPositions(text), 1)
    THEN FirstMatch(text, InPositions(text), 3)
    ELSE FirstMatch(text, FromNowPositions(text), 4)

\* The loop over the two patterns: the first pattern that matches anywhere
\* decides, and its leftmost match is returned
extractRelativeTimeExpression(text) ==
    IF InPositions(text) # {} THEN FirstMatch(text, InPositions(text), 3)
    ELSE FirstMatch(text, FromNowPositions(text), 4)

getCurrentDateTime(now, zone) == formatDateTime(now, zone)

-----------------------------------------------------------------------------
(* services/geminiService.ts: the model's reply and JSON *)

(***************************************************************************)
(* A reply is a sequence of reply tokens:                                  *)
(*   lb, rb    the characters { and }                                      *)
(*   txt       a run of characters with no brace in it that is not JSON    *)
(*   f         a well-formed member "name": "val" with a string value      *)
(*   key       a well-formed "name": that an object value follows          *)
(* Separators (commas, white space) between members are implied.           *)
(***************************************************************************)
LB == [k |-> "lb", name |-> "", val |-> <<>>]
RB == [k |-> "rb", name |-> "", val |-> <<>>]
Txt == [k |-> "txt", name |-> "", val |-> <<>>]
Member(n, v) == [k |-> "f", name |-> n, val |-> v]
Key(n) == [k |-> "key", name |-> n, val |-> <<>>]

\* null
Null == [null |-> <<>>]

\* obj[n] = v
Put(obj, n, v) == [x \in (DOMAIN obj) \cup {n} |-> IF x = n THEN v ELSE obj[x]]

Has(obj, n) == n \in DOMAIN obj

\* jsonMatch with the pattern /\{[\s\S]*/, which needs no closing brace
jsonMatch_OpenBraceOnly(text) ==
    LET opens == {i \in 1..Len(text) : text[i].k = "lb"}
        first == CHOOSE i \in opens : \A j \in opens : i <= j
    IN  IF opens = {} THEN <<>> ELSE SubSeq(text, first, Len(text))

\* text.match(/\{[\s\S]*\}/): from the first { to the last } after it
\* (the star is greedy); <<>> when there is no such pair
jsonMatch(text) ==
    LET opens  == {i \in 1..Len(text) : text[i].k = "lb"}
        first  == CHOOSE i \in opens : \A j \in opens : i <= j
        closes == {i \in 1..Len(text) : text[i].k = "rb" /\ i > first}
        last   == CHOOSE i \in closes : \A j \in closes : j <= i
    IN  IF opens = {} THEN <<>>
        ELSE IF closes = {} THEN <<>>
        ELSE SubSeq(text, first, last)

ParseFail == [ok |-> FALSE, next |-> 0, obj |-> <<>>, src |-> <<>>]

\* The members of an object from token i up to its closing brace: the object
\* read (a later member of the same name replaces an earlier one), the token
\* after the brace, and the object's source text
RECURSIVE ParseMembers(_, _, _, _)
ParseMembers(toks, i, obj, src) ==
    IF i > Len(toks) THEN ParseFail
    ELSE CASE toks[i].k = "rb" ->
                [ok |-> TRUE, next |-> i + 1, obj |-> obj, src |-> src \o <<"}">>]
           [] toks[i].k = "f" ->
                ParseMembers(toks, i + 1, Put(obj, toks[i].name, toks[i].val),
                             src \o toks[i].val)
           [] toks[i].k = "key" ->
                IF i + 1 <= Len(toks) /\ toks[i + 1].k = "lb"
                THEN LET sub == ParseMembers(toks, i + 2, <<>>, <<"{">>)
                     IN  IF sub.ok
                         THEN ParseMembers(toks, sub.next,
                                           Put(obj, toks[i].name, sub.src),
                                           src \o sub.src)
                         ELSE ParseFail
                ELSE ParseFail
           [] OTHER -> ParseFail

\* JSON.parse(jsonString): ok is FALSE where it throws a SyntaxError
JSONparse(str) ==
    IF Len(str) = 0 THEN ParseFail
    ELSE IF str[1].k # "lb" THEN ParseFail
    ELSE LET r == ParseMembers(str, 2, <<>>, <<"{">>)
         IN  IF r.ok /\ r.next = Len(str) + 1 THEN r ELSE ParseFail

-----------------------------------------------------------------------------
(* services/geminiService.ts: the validator and the override *)

v_meeting == <<"m", "e", "e", "t", "i", "n", "g">>
v_reminder == <<"r", "e", "m", "i", "n", "d", "e", "r">>
v_task == <<"t", "a", "s", "k">>
v_appointment == <<"a", "p", "p", "o", "i", "n", "t", "m", "e", "n", "t">>
v_low == <<"l", "o", "w">>
v_medium == <<"m", "e", "d", "i", "u", "m">>
v_high == <<"h", "i", "g", "h">>

requiredFields == <<"type", "title", "date", "time">>

validTypes == {v_meeting, v_reminder, v_task, v_appointment}

validPriorities == {v_low, v_medium, v_high}

\* !data[field]: the field is undefined or the empty string
Falsy(data, field) == ~Has(data, field) \/ data[field] = <<>>

\* /^\d{4}-\d{2}-\d{2}$/.test(s)
dateRegex(s) ==
    /\ Len(s) = 10
    /\ \A i \in {1, 2, 3, 4, 6, 7, 9, 10} : IsDigit(s[i])
    /\ s[5] = "-" /\ s[8] = "-"

\* /^\d{2}:\d{2}$/.test(s)
timeRegex(s) ==
    /\ Len(s) = 5
    /\ \A i \in {1, 2, 4, 5} : IsDigit(s[i])
    /\ s[3] = ":"

\* The date is a day of the calendar and the time a minute of the day
OnCalendarAndClock(date, time) ==
    /\ DateString(DaysFromCivil(parseInt(SubSeq(date, 1, 4)),
                                parseInt(SubSeq(date, 6, 7)),
                                parseInt(SubSeq(date, 9, 10)))) = date
    /\ parseInt(SubSeq(time, 1, 2)) < 24
    /\ parseInt(SubSeq(time, 4, 5)) < 60

\* validateScheduleData rejecting also dates that are not on the calendar and
\* times that are not on the clock
validationFailure_CalendarChecked(data) ==
    IF \E i \in 1..Len(requiredFields) : Falsy(data, requiredFields[i])
    THEN "Missing required field"
    ELSE IF data["type"] \notin validTypes THEN "Invalid type"
    ELSE IF ~Falsy(data, "priority") /\ data["priority"] \notin validPriorities
         THEN "Invalid priority"
    ELSE IF ~dateRegex(data["date"]) THEN "Invalid date format"
    ELSE IF ~timeRegex(data["time"]) THEN "Invalid time format"
    ELSE IF ~OnCalendarAndClock(data["date"], data["time"])
         THEN "Invalid date format"
    ELSE ""

\* The message validateScheduleData logs before it returns false: the first
\* check that fails, "" when every check passes
validationFailure(data) ==
    IF \E i \in 1..Len(requiredFields) : Falsy(data, requiredFields[i])
    THEN "Missing required field"
    ELSE IF data["type"] \notin validTypes THEN "Invalid type"
    ELSE IF ~Falsy(data, "priority") /\ data["priority"] \notin validPriorities
         THEN "Invalid priority"
    ELSE IF ~dateRegex(data["date"]) THEN "Invalid date format"
    ELSE IF ~timeRegex(data["time"]) THEN "Invalid time format"
    ELSE ""

validateScheduleData(data) == validationFailure(data) = ""

\* Whether postProcessScheduleData calls calculateRelativeTime
overrideApplies(prompt) ==
    /\ hasRelativeTimeExpression(prompt)
    /\ extractRelativeTimeExpression(prompt) # NoMatch

\* setDateTime writing the calculated date into the title as well
setDateTime_AndTitle(scheduleData, calculatedTime) ==
    Put(Put(Put(scheduleData, "date", calculatedTime.date),
            "time", calculatedTime.time),
        "title", calculatedTime.date)

\* scheduleData.date = calculatedTime.date; scheduleData.time = calculatedTime.time
setDateTime(scheduleData, calculatedTime) ==
    Put(Put(scheduleData, "date", calculatedTime.date), "time", calculatedTime.time)

\* postProcessScheduleData overriding only a date or time the reply left out
postProcessScheduleData_OnlyIfMissing(scheduleData, prompt, now, zone) ==
    IF overrideApplies(prompt) /\ (Falsy(scheduleData, "date") \/ Falsy(scheduleData, "time"))
    THEN setDateTime(scheduleData,
             calculateRelativeTime(extractRelativeTimeExpression(prompt), now, zone))
    ELSE scheduleData

\* postProcessScheduleData overriding the date, and the time only when the
\* reply left it out
postProcessScheduleData_KeepsGivenTime(scheduleData, prompt, now, zone) ==
    IF overrideApplies(prompt)
    THEN LET calculatedTime ==
                 calculateRelativeTime(extractRelativeTimeExpression(prompt),
                                       now, zone)
         IN  IF Falsy(scheduleData, "time")
             THEN setDateTime(scheduleData, calculatedTime)
             ELSE Put(scheduleData, "date", calculatedTime.date)
    ELSE scheduleData

\* postProcessScheduleData; now is the clock when it runs, which
\* calculateRelativeTime(relativeExpression) takes as its default baseDate
postProcessScheduleData(scheduleData, prompt, now, zone) ==
    IF overrideApplies(prompt)
    THEN setDateTime(scheduleData,
             calculateRelativeTime(extractRelativeTimeExpression(prompt), now, zone))
    ELSE scheduleData

-----------------------------------------------------------------------------
(* services/geminiService.ts: processSchedulePrompt *)

NoDateTime == [date |-> <<>>, time |-> <<>>]

\* The catch block: { success: false, data: null, error: error.message }
Failure(message) == [success |-> FALSE, data |-> Null, error |-> message]

\* What a rejected model call throws: an Error with a message, or a value
\* that is no Error
NoThrow == [kind |-> "none", message |-> ""]
ErrorOf(message) == [kind |-> "Error", message |-> message]

\* The catch block reporting every error by one fixed message
catchMessage_Generic(e) == "Unknown error occurred"

\* error instanceof Error ? error.message : 'Unknown error occurred'
catchMessage(e) ==
    IF e.kind = "Error" THEN e.message ELSE "Unknown error occurred"

\* The candidate with the default priority "medium" where it has none
withDefaultPriority(data) ==
    IF Falsy(data, "priority") THEN Put(data, "priority", v_medium) ELSE data

\* afterPostProcess returning the record with the default priority filled in
afterPostProcess_DefaultPriority(parsedData, processedData, calcAt) ==
    [result     |-> IF validateScheduleData(processedData)
                    THEN [success |-> TRUE,
                          data |-> withDefaultPriority(processedData),
                          error |-> ""]
                    ELSE Failure("Invalid schedule data structure"),
     parsed     |-> parsedData,
     processed  |-> processedData,
     overrideAt |-> calcAt,
     steps      |-> <<"match", "JSON.parse", "postProcessScheduleData">>
                    \o (IF calcAt >= 0 THEN <<"calculateRelativeTime">> ELSE <<>>)
                    \o <<"validateScheduleData">>
                    \o (IF validateScheduleData(processedData)
                        THEN <<"return">> ELSE <<"catch">>)]

\* afterPostProcess returning the rejected candidate with the failure
afterPostProcess_KeepsRejected(parsedData, processedData, calcAt) ==
    [result     |-> IF validateScheduleData(processedData)
                    THEN [success |-> TRUE, data |-> processedData, error |-> ""]
                    ELSE [success |-> FALSE, data |-> processedData,
                          error |-> "Invalid schedule data structure"],
     parsed     |-> parsedData,
     processed  |-> processedData,
     overrideAt |-> calcAt,
     steps      |-> <<"match", "JSON.parse", "postProcessScheduleData">>
                    \o (IF calcAt >= 0 THEN <<"calculateRelativeTime">> ELSE <<>>)
                    \o <<"validateScheduleData">>
                    \o (IF validateScheduleData(processedData)
                        THEN <<"return">> ELSE <<"catch">>)]

\* afterPostProcess with the validator given the candidate as it was parsed
afterPostProcess_ValidatesParsed(parsedData, processedData, calcAt) ==
    [result     |-> IF validateScheduleData(parsedData)
                    THEN [success |-> TRUE, data |-> processedData, error |-> ""]
                    ELSE Failure("Invalid schedule data structure"),
     parsed     |-> parsedData,
     processed  |-> processedData,
     overrideAt |-> calcAt,
     steps      |-> <<"match", "JSON.parse", "postProcessScheduleData">>
                    \o (IF calcAt >= 0 THEN <<"calculateRelativeTime">> ELSE <<>>)
                    \o <<"validateScheduleData">>
                    \o (IF validateScheduleData(parsedData)
                        THEN <<"return">> ELSE <<"catch">>)]

\* Lines 94-107: the validation of the processed data and the return
afterPostProcess(parsedData, processedData, calcAt) ==
    [result     |-> IF validateScheduleData(processedData)
                    THEN [success |-> TRUE, data |-> processedData, error |-> ""]
                    ELSE Failure("Invalid schedule data structure"),
     parsed     |-> parsedData,
     processed  |-> processedData,
     overrideAt |-> calcAt,
     steps      |-> <<"match", "JSON.parse", "postProcessScheduleData">>
                    \o (IF calcAt >= 0 THEN <<"calculateRelativeTime">> ELSE <<>>)
                    \o <<"validateScheduleData">>
                    \o (IF validateScheduleData(processedData)
                        THEN <<"return">> ELSE <<"catch">>)]

\* afterMatch reporting a parse failure as a reply without an object
afterMatch_ParseFailAsNoJson(prompt, p, now, zone) ==
    IF ~p.ok
    THEN [result |-> Failure("No valid JSON found in AI response"),
          parsed |-> Null, processed |-> Null, overrideAt |-> -1,
          steps  |-> <<"match", "JSON.parse", "catch">>]
    ELSE afterPostProcess(p.obj,
                          postProcessScheduleData(p.obj, prompt, now, zone),
                          IF overrideApplies(prompt) THEN now ELSE -1)

\* Lines 89-92: JSON.parse and the call of postProcessScheduleData
afterMatch(prompt, p, now, zone) ==
    IF ~p.ok
    THEN [result |-> Failure("SyntaxError"),
          parsed |-> Null, processed |-> Null, overrideAt |-> -1,
          steps  |-> <<"match", "JSON.parse", "catch">>]
    ELSE afterPostProcess(p.obj,
                          postProcessScheduleData(p.obj, prompt, now, zone),
                          IF overrideApplies(prompt) THEN now ELSE -1)

\* Lines 83-86: the match of the reply text
afterReply(prompt, jsonString, now, zone) ==
    IF jsonString = <<>>
    THEN [result |-> Failure("No valid JSON found in AI response"),
          parsed |-> Null, processed |-> Null, overrideAt |-> -1,
          steps  |-> <<"match", "catch">>]
    ELSE afterMatch(prompt, JSONparse(jsonString), now, zone)

\* processSchedulePrompt from the line after the awaits to its return, run
\* without interruption when the model's reply text arrives at clock reading now
processReply(prompt, text, now, zone) ==
    afterReply(prompt, jsonMatch(text), now, zone)

-----------------------------------------------------------------------------
(* Inputs *)

\* Minutes the clock may advance during one behaviour
MaxElapsed == 2

\* Largest amount N of the phrases given to calculateRelativeTime directly
MaxAmount == 30

\* Segments joined into the texts given to the two pattern functions
MaxSegs == 3

Zones == {0, 330, -300}

StartInstants ==
    { Instant(2024, 1, 15, 8, 50), Instant(2024, 1, 15, 23, 50),
      Instant(2024, 1, 15, 20, 30) }

Instants ==
    StartInstants \cup
    { Instant(2024, 1, 16, 3, 0), Instant(2024, 1, 31, 0, 10),
      Instant(2024, 2, 29, 12, 0), Instant(2023, 12, 31, 23, 59) }

w_call == <<"c", "a", "l", "l">>
w_within == <<"w", "i", "t", "h", "i", "n">>
w_In == <<"I", "n">>
w_Hours == <<"H", "o", "u", "r", "s">>
w_five == <<"f", "i", "v", "e">>

Num(n) == PadNum(n, 1)

\* Relative expressions: "in N unit", "within N unit", "N unit from now",
\* and expressions with no amount or no unit
Phrases ==
    { <<a, Num(n), UnitWords[u]>> :
        a \in {s_in, w_In}, n \in 1..MaxAmount, u \in 1..Len(UnitWords) }
    \cup { <<w_within, Num(n), s_minutes>> : n \in {5, 20} }
    \cup { <<s_in, <<"0">> \o Num(n), w_Hours>> : n \in {5, 7} }
    \cup { <<Num(n), UnitWords[u], s_from, s_now>> :
             n \in {5, 20}, u \in 1..Len(UnitWords) }
    \cup { <<s_tomorrow>>, <<s_next, s_week>>, <<s_in, w_five, s_minutes>>,
           <<s_in, Num(5)>>, <<Num(5), s_minutes>>, <<w_call>> }

TextSegments ==
    { <<s_in, Num(5), s_minutes>>, <<Num(2), s_hours, s_from, s_now>>,
      <<w_In, Num(1), w_Hours>>, <<s_tomorrow>>, <<s_next, s_week>>,
      <<s_next>>, <<w_call>>, <<s_in>>, <<Num(7)>>, <<s_days>>,
      <<s_from, s_now>>, <<w_within>> }

RECURSIVE TextsUpTo(_)
TextsUpTo(n) ==
    IF n = 0 THEN {<<>>}
    ELSE LET shorter == TextsUpTo(n - 1)
         IN  shorter \cup {a \o b : a \in shorter, b \in TextSegments}

Texts == TextsUpTo(MaxSegs)

\* User prompts given to processSchedulePrompt
Prompts ==
    { <<w_call>>,
      <<w_call, s_in, Num(30), s_minutes>>,
      <<w_call, s_in, Num(20), s_minutes>>,
      <<w_In, Num(2), w_Hours>>,
      <<s_in, Num(1), s_day>>,
      <<w_call, s_in, Num(2), s_weeks>>,
      <<w_call, Num(5), s_minutes, s_from, s_now>>,
      <<Num(5), s_minutes, s_from, s_now, s_in, Num(2), s_hours>>,
      <<w_call, s_tomorrow>>,
      <<s_next, s_week>>,
      <<w_within, Num(5), s_minutes>>,
      <<s_tomorrow, s_in, Num(20), s_minutes>> }

d_20240115 == <<"2", "0", "2", "4", "-", "0", "1", "-", "1", "5">>
d_20240230 == <<"2", "0", "2", "4", "-", "0", "2", "-", "3", "0">>
d_01152024 == <<"0", "1", "-", "1", "5", "-", "2", "0", "2", "4">>
t_0900 == <<"0", "9", ":", "0", "0">>
t_0920 == <<"0", "9", ":", "2", "0">>
t_9999 == <<"9", "9", ":", "9", "9">>
t_900 == <<"9", ":", "0", "0">>
v_birthday == <<"b", "i", "r", "t", "h", "d", "a", "y">>
v_urgent == <<"u", "r", "g", "e", "n", "t">>
v_title == <<"C", "a", "l", "l", " ", "S", "a", "r", "a", "h">>

Core(d, t) ==
    <<Member("type", v_reminder), Member("title", v_title),
      Member("date", d), Member("time", t)>>

\* The members of the objects the model replies with
MemberLists ==
    { Core(d_20240115, t_0900), Core(d_20240115, t_0920),
      Core(d_20240230, t_9999), Core(d_01152024, t_0900),
      Core(d_20240115, t_900),
      Core(d_20240115, t_0900) \o <<Member("priority", v_high)>>,
      Core(d_20240115, t_0900) \o <<Member("priority", v_urgent)>>,
      Core(d_20240115, t_0900) \o <<Key("metadata"), LB, RB>>,
      <<Member("type", v_birthday), Member("title", v_title),
        Member("date", d_20240115), Member("time", t_0900)>>,
      <<Member("type", v_meeting), Member("date", d_20240115),
        Member("time", t_0900)>>,
      <<Member("type", v_task), Member("title", v_title)>>,
      <<>> }

\* Texts the model returns: an object alone, an object with text before and
\* after it, and texts with no object in them
Replies ==
    { <<LB>> \o ms \o <<RB>> : ms \in MemberLists }
    \cup { pre \o <<LB>> \o Core(d_20240115, t_0900) \o <<RB>> \o post :
             pre \in {<<>>, <<Txt>>},
             post \in {<<Txt>>, <<Txt, RB>>,
                       <<Txt, LB, Member("type", v_task), RB>>} }
    \cup { <<Txt>>, <<>>, <<RB, Txt, LB>>, <<LB, Txt>>, <<Txt, RB>>,
           <<LB, Txt, RB>>, <<LB, Member("type", v_task), LB, RB>> }

e_fetch == "[GoogleGenerativeAI Error]: fetch failed"
e_quota == "[GoogleGenerativeAI Error]: [429 Too Many Requests]"

\* What the model call rejects with: the SDK's errors, all of them Errors
ModelErrors == {ErrorOf(e_fetch), ErrorOf(e_quota)}

-----------------------------------------------------------------------------
(* The pipeline: one invocation of processSchedulePrompt *)

NoCall == [op |-> "none", dt |-> NoDateTime, has |-> FALSE, phrase |-> <<>>]

PipeIdle ==
    /\ pc = "idle"
    /\ userPrompt = <<>>
    /\ embedded = NoDateTime
    /\ promptAt = -1
    /\ reply = <<>>
    /\ overrideAt = -1
    /\ parsed = Null
    /\ processed = Null
    /\ result = Failure("")
    /\ steps = <<>>
    /\ modelCalls = 0
    /\ thrown = NoThrow

\* Concurrent invocations of processSchedulePrompt
NumInvocations == 2

Invocations == 1..NumInvocations

\* The locals of an invocation that has not started
IdleInvocation ==
    [pc |-> "idle", prompt |-> <<>>, text |-> <<>>, replyAt |-> -1,
     thrown |-> NoThrow, result |-> Failure(""), latest |-> <<>>]

NoDocument == [id |-> 0, userId |-> "", fields |-> Null, aiPrompt |-> <<>>]

NoBody == [success |-> FALSE, error |-> "", data |-> NoDocument, message |-> ""]

\* createSchedule before a request
IdleController ==
    [pc |-> "idle", prompt |-> <<>>, user |-> "", userId |-> "",
     extracted |-> FALSE,
     aiResponse |-> Failure(""), saveCalls |-> <<>>, saved |-> "none",
     status |-> 0, body |-> NoBody]

ConcIdle ==
    /\ service = "null"
    /\ inv = [i \in Invocations |-> IdleInvocation]
    /\ lastText = <<>>

CtlIdle ==
    /\ ctl = IdleController
    /\ stored = <<>>

\* The request of a route before it arrives
NoRequest ==
    [route |-> "", header |-> [present |-> FALSE, parts |-> <<>>],
     secretDefined |-> TRUE, userId |-> "", id |-> 0, type |-> <<>>,
     startDate |-> <<>>, endDate |-> <<>>]

\* No request has arrived
IdleHttp ==
    [pc |-> "idle", req |-> NoRequest, user |-> "", handlerRan |-> FALSE,
     status |-> 0, error |-> "", filter |-> "", touched |-> {}]

HttpIdle == http = IdleHttp

\* The module services/geminiService.ts as loaded: no instance, no call yet
\* (instance 0 is null; apiKey is process.env['GEMINI_API_KEY'])
GeminiIdle ==
    gemini = [apiKey |-> "undefined", instance |-> 0, constructed |-> <<>>,
              returned |-> <<>>]

\* What an operation of Database can change: the flag, the sets of handlers
\* registered on mongoose.connection, and the calls of mongoose.connect and
\* of connection.close() that are awaited
NoDbState == [isConnected |-> FALSE, listeners |-> 0, connecting |-> 0,
              closing |-> 0]

\* The Database instance as constructed: isConnected = false, no listeners.
\* uri is whether MONGODB_URI is defined; everConnected, lastStatus, last
\* and prev record the history: whether a connect has succeeded, the last
\* event that bears on the status, the last step and the state before it
IdleDatabase ==
    [uri |-> TRUE, isConnected |-> FALSE, listeners |-> 0, connecting |-> 0,
     closing |-> 0, everConnected |-> FALSE, lastStatus |-> "none",
     last |-> "none", prev |-> NoDbState]

DbIdle == db = IdleDatabase

RestIdle == HttpIdle /\ GeminiIdle /\ DbIdle

ExtIdle ==
    /\ fnData = Null
    /\ ConcIdle
    /\ CtlIdle
    /\ RestIdle

Init ==
    /\ tz \in Zones
    /\ clock \in StartInstants
    /\ elapsed = 0
    /\ PipeIdle
    /\ fnText = <<>>
    /\ fnOut = NoCall
    /\ ExtIdle

\* The system clock advances
Tick ==
    /\ elapsed < MaxElapsed
    /\ clock' = clock + 1
    /\ elapsed' = elapsed + 1
    /\ UNCHANGED <<tz, pipeVars, fnVars, extVars>>

\* processSchedulePrompt(prompt) up to the await of generateContent:
\* createPrompt reads the clock and writes it into the instruction
Start(prompt) ==
    /\ pc = "idle"
    /\ pc' = "pending"
    /\ userPrompt' = prompt
    /\ promptAt' = clock
    /\ embedded' = getCurrentDateTime(clock, tz)
    /\ steps' = <<"createPrompt", "generateContent">>
    /\ modelCalls' = modelCalls + 1
    /\ UNCHANGED <<tz, clock, elapsed, reply, overrideAt, parsed, processed,
                   result, thrown, fnVars, extVars>>

\* generateContent resolves with text: the rest of processSchedulePrompt
ModelReplies(text) ==
    /\ pc = "pending"
    /\ LET r == processReply(userPrompt, text, clock, tz)
       IN  /\ result' = r.result
           /\ parsed' = r.parsed
           /\ processed' = r.processed
           /\ overrideAt' = r.overrideAt
           /\ steps' = steps \o r.steps
    /\ reply' = text
    /\ pc' = "done"
    /\ UNCHANGED <<tz, clock, elapsed, userPrompt, promptAt, embedded,
                   modelCalls, thrown, fnVars, extVars>>

\* ModelFails calling the model a second time before it gives up
ModelFails_Retry(e) ==
    /\ pc = "pending"
    /\ IF modelCalls < 2
       THEN /\ modelCalls' = modelCalls + 1
            /\ steps' = steps \o <<"generateContent">>
            /\ UNCHANGED <<pc, thrown, result>>
       ELSE /\ thrown' = e
            /\ result' = Failure(catchMessage(e))
            /\ steps' = steps \o <<"catch">>
            /\ pc' = "done"
            /\ UNCHANGED modelCalls
    /\ UNCHANGED <<tz, clock, elapsed, userPrompt, promptAt, embedded, reply,
                   overrideAt, parsed, processed, fnVars, extVars>>

\* generateContent, the await of result.response or response.text() throws
\* e: the catch block returns the error's message
ModelFails(e) ==
    /\ pc = "pending"
    /\ thrown' = e
    /\ result' = Failure(catchMessage(e))
    /\ steps' = steps \o <<"catch">>
    /\ pc' = "done"
    /\ UNCHANGED <<tz, clock, elapsed, userPrompt, promptAt, embedded, reply,
                   overrideAt, parsed, processed, modelCalls, fnVars, extVars>>

Next ==
    \/ Tick
    \/ \E prompt \in Prompts : Start(prompt)
    \/ \E text \in Replies : ModelReplies(text)
    \/ \E e \in ModelErrors : ModelFails(e)

Spec == Init /\ [][Next]_vars

-----------------------------------------------------------------------------
(* Direct calls of calculateRelativeTime and getCurrentDateTime *)

InitTime ==
    /\ tz \in Zones
    /\ clock \in Instants
    /\ elapsed = 0
    /\ PipeIdle
    /\ fnText \in Phrases
    /\ fnOut = NoCall
    /\ ExtIdle

\* calculateRelativeTime(fnText), baseDate defaulting to new Date()
CallCalculateRelativeTime ==
    /\ fnOut' = [op |-> "calculateRelativeTime",
                 dt |-> calculateRelativeTime(fnText, clock, tz),
                 has |-> FALSE, phrase |-> <<>>]
    /\ UNCHANGED <<tz, clock, elapsed, pipeVars, fnText, extVars>>

CallGetCurrentDateTime ==
    /\ fnOut' = [op |-> "getCurrentDateTime",
                 dt |-> getCurrentDateTime(clock, tz),
                 has |-> FALSE, phrase |-> <<>>]
    /\ UNCHANGED <<tz, clock, elapsed, pipeVars, fnText, extVars>>

NextTime == CallCalculateRelativeTime \/ CallGetCurrentDateTime

SpecTime == InitTime /\ [][NextTime]_vars

-----------------------------------------------------------------------------
(* Direct calls of hasRelativeTimeExpression and extractRelativeTimeExpression *)

InitText ==
    /\ tz = 0
    /\ clock = Instant(2024, 1, 15, 8, 50)
    /\ elapsed = 0
    /\ PipeIdle
    /\ fnText \in Texts
    /\ fnOut = NoCall
    /\ ExtIdle

CallHasRelativeTimeExpression ==
    /\ fnOut' = [op |-> "hasRelativeTimeExpression", dt |-> NoDateTime,
                 has |-> hasRelativeTimeExpression(fnText), phrase |-> <<>>]
    /\ UNCHANGED <<tz, clock, elapsed, pipeVars, fnText, extVars>>

CallExtractRelativeTimeExpression ==
    /\ fnOut' = [op |-> "extractRelativeTimeExpression", dt |-> NoDateTime,
                 has |-> FALSE, phrase |-> extractRelativeTimeExpression(fnText)]
    /\ UNCHANGED <<tz, clock, elapsed, pipeVars, fnText, extVars>>

NextText == CallHasRelativeTimeExpression \/ CallExtractRelativeTimeExpression

SpecText == InitText /\ [][NextText]_vars

-----------------------------------------------------------------------------
(* Direct calls of validateScheduleData *)

\* A field the candidate does not have
Absent == <<"undefined">>

PutIfPresent(obj, name, val) == IF val = Absent THEN obj ELSE Put(obj, name, val)

MakeCandidate(ty, ti, d, t, p) ==
    PutIfPresent(PutIfPresent(PutIfPresent(PutIfPresent(PutIfPresent(
        <<>>, "type", ty), "title", ti), "date", d), "time", t), "priority", p)

v_Meeting == <<"M", "e", "e", "t", "i", "n", "g">>
d_2024115 == <<"2", "0", "2", "4", "-", "1", "-", "1", "5">>
d_slashes == <<"2", "0", "2", "4", "/", "0", "1", "/", "1", "5">>
d_withT == d_20240115 \o <<"T">>
t_090000 == t_0900 \o <<":", "0", "0">>
t_9am == <<"9", "a", "m">>

TypeValues ==
    {Absent, <<>>, v_meeting, v_reminder, v_task, v_appointment, v_birthday,
     v_Meeting}
TitleValues == {Absent, <<>>, v_title}
DateValues ==
    {Absent, <<>>, d_20240115, d_20240230, d_01152024, d_2024115, d_slashes,
     d_withT}
TimeValues == {Absent, <<>>, t_0900, t_9999, t_900, t_090000, t_9am}
PriorityValues == {Absent, <<>>, v_low, v_medium, v_high, v_urgent}

\* Candidates given to validateScheduleData
Candidates ==
    { MakeCandidate(ty, ti, d, t, p) :
        ty \in TypeValues, ti \in TitleValues, d \in DateValues,
        t \in TimeValues, p \in PriorityValues }

InitValidate ==
    /\ tz = 0
    /\ clock = Instant(2024, 1, 15, 8, 50)
    /\ elapsed = 0
    /\ PipeIdle
    /\ fnText = <<>>
    /\ fnOut = NoCall
    /\ fnData \in Candidates
    /\ ConcIdle
    /\ CtlIdle
    /\ RestIdle

\* The checks of validateScheduleData in the order of its statements: the
\* loop over requiredFields, then the four tests
CheckOrder ==
    << [rule |-> "Missing required field", field |-> "type"],
       [rule |-> "Missing required field", field |-> "title"],
       [rule |-> "Missing required field", field |-> "date"],
       [rule |-> "Missing required field", field |-> "time"],
       [rule |-> "Invalid type", field |-> "type"],
       [rule |-> "Invalid priority", field |-> "priority"],
       [rule |-> "Invalid date format", field |-> "date"],
       [rule |-> "Invalid time format", field |-> "time"] >>

\* The two patterns tested before the required fields and the enums
PatternsFirstOrder ==
    << CheckOrder[7], CheckOrder[8], CheckOrder[1], CheckOrder[2],
       CheckOrder[3], CheckOrder[4], CheckOrder[5], CheckOrder[6] >>

\* The condition of the if statement of a check; an undefined field is in no
\* enum and matches no pattern
CheckFails(data, check) ==
    CASE check.rule = "Missing required field" -> Falsy(data, check.field)
      [] check.rule = "Invalid type" ->
           ~Has(data, "type") \/ data["type"] \notin validTypes
      [] check.rule = "Invalid priority" ->
           ~Falsy(data, "priority") /\ data["priority"] \notin validPriorities
      [] check.rule = "Invalid date format" ->
           ~Has(data, "date") \/ ~dateRegex(data["date"])
      [] check.rule = "Invalid time format" ->
           ~Has(data, "time") \/ ~timeRegex(data["time"])

\* The run of a validator that makes the checks in the given order and
\* returns at the first that fails: the checks evaluated, and the check whose
\* message is logged (none when the validator returns true)
runChecks(data, order) ==
    LET failing == {i \in 1..Len(order) : CheckFails(data, order[i])}
        first   == IF failing = {} THEN 0
                   ELSE CHOOSE i \in failing : \A j \in failing : i <= j
    IN  [evaluated |-> IF first = 0 THEN order ELSE SubSeq(order, 1, first),
         logged    |-> IF first = 0 THEN <<>> ELSE <<order[first]>>]

\* validateScheduleData testing the patterns first
validatorRun_PatternsFirst(data) == runChecks(data, PatternsFirstOrder)

\* The run of validateScheduleData on a candidate
validatorRun(data) == runChecks(data, CheckOrder)

CallValidateScheduleData ==
    /\ fnOut' = [op |-> "validateScheduleData", dt |-> NoDateTime,
                 has |-> validateScheduleData(fnData), phrase |-> <<>>,
                 evaluated |-> validatorRun(fnData).evaluated,
                 logged |-> validatorRun(fnData).logged]
    /\ UNCHANGED <<tz, clock, elapsed, pipeVars, fnText, extVars>>

NextValidate == CallValidateScheduleData

SpecValidate == InitValidate /\ [][NextValidate]_vars

-----------------------------------------------------------------------------
(* Concurrent invocations of processSchedulePrompt on the instance that
   getGeminiService returns; an invocation gives up control at its awaits *)

ConcPrompts == {<<w_call>>, <<w_call, s_in, Num(30), s_minutes>>}

ConcReplies ==
    { <<LB>> \o Core(d_20240115, t_0900) \o <<RB>>,
      <<LB, Member("type", v_birthday), Member("title", v_title),
        Member("date", d_20240115), Member("time", t_0900), RB>> }

InitConc ==
    /\ tz = -300
    /\ clock = Instant(2024, 1, 15, 23, 50)
    /\ elapsed = 0
    /\ PipeIdle
    /\ fnText = <<>>
    /\ fnOut = NoCall
    /\ ExtIdle

\* The text an invocation's continuation reads, taken from a field shared by
\* all invocations
ownText_SharedField(invs, i, latest) == latest

\* const text = response.text(): response is a local of the invocation
ownText(invs, i, latest) == invs[i].text

\* getGeminiService() and processSchedulePrompt(prompt) up to the await of
\* generateContent
ConcStart(i, prompt) ==
    /\ inv[i].pc = "idle"
    /\ service' = "instance"
    /\ inv' = [inv EXCEPT ![i].pc = "generateContent", ![i].prompt = prompt]
    /\ UNCHANGED <<tz, clock, elapsed, pipeVars, fnVars, fnData, lastText,
                   ctlVars, restVars>>

\* generateContent resolves for invocation i, which awaits result.response
ConcGenerated(i, text) ==
    /\ inv[i].pc = "generateContent"
    /\ inv' = [inv EXCEPT ![i].pc = "response", ![i].text = text]
    /\ lastText' = text
    /\ UNCHANGED <<tz, clock, elapsed, pipeVars, fnVars, fnData, service,
                   ctlVars, restVars>>

\* result.response resolves: the rest of processSchedulePrompt
ConcReturns(i) ==
    /\ inv[i].pc = "response"
    /\ inv' = [inv EXCEPT
                 ![i].pc = "done",
                 ![i].replyAt = clock,
                 ![i].latest = lastText,
                 ![i].result = processReply(inv[i].prompt,
                                            ownText(inv, i, lastText),
                                            clock, tz).result]
    /\ UNCHANGED <<tz, clock, elapsed, pipeVars, fnVars, fnData, service,
                   lastText, ctlVars, restVars>>

\* the model call of invocation i throws e
ConcFails(i, e) ==
    /\ inv[i].pc = "generateContent"
    /\ inv' = [inv EXCEPT ![i].pc = "done", ![i].thrown = e,
                          ![i].result = Failure(catchMessage(e))]
    /\ UNCHANGED <<tz, clock, elapsed, pipeVars, fnVars, fnData, service,
                   lastText, ctlVars, restVars>>

NextConc ==
    \/ Tick
    \/ \E i \in Invocations, prompt \in ConcPrompts : ConcStart(i, prompt)
    \/ \E i \in Invocations, text \in ConcReplies : ConcGenerated(i, text)
    \/ \E i \in Invocations : ConcReturns(i)
    \/ \E i \in Invocations : ConcFails(i, ErrorOf(e_fetch))

SpecConc == InitConc /\ [][NextConc]_vars

-----------------------------------------------------------------------------
(* middleware/authMiddleware.ts and AuthService.verifyToken.  A token is a
   string; the Authorization header is given by the pieces that
   split(' ') cuts it into. *)

tok_A == "jwt(userId: A)"
tok_B == "jwt(userId: B)"
tok_expired == "jwt(userId: A, expired)"
tok_forged == "jwt(userId: B, signed with another secret)"

UserIds == {"A", "B"}

\* jwt.verify(token, secret): the payload of a token signed with the secret
\* and not expired; it throws for any other token
jwtVerify(token) ==
    CASE token = tok_A -> [ok |-> TRUE, userId |-> "A"]
      [] token = tok_B -> [ok |-> TRUE, userId |-> "B"]
      [] OTHER -> [ok |-> FALSE, userId |-> ""]

\* AuthService.verifyToken: null (ok FALSE) when JWT_SECRET is undefined or
\* jwt.verify throws
verifyToken(token, secretDefined) ==
    IF secretDefined THEN jwtVerify(token) ELSE [ok |-> FALSE, userId |-> ""]

NoHeader == [present |-> FALSE, parts |-> <<>>]
HeaderOf(parts) == [present |-> TRUE, parts |-> parts]

\* authHeader && authHeader.split(' ')[1]; "": undefined or empty
tokenOf(authHeader) ==
    IF authHeader.present /\ Len(authHeader.parts) >= 2
    THEN authHeader.parts[2] ELSE ""

\* authenticateToken letting a request through whatever its token
authenticateToken_Optional(authHeader, secretDefined) ==
    [next |-> TRUE, status |-> 0, error |-> "",
     user |-> IF tokenOf(authHeader) = "" THEN ""
              ELSE verifyToken(tokenOf(authHeader), secretDefined).userId]

\* authenticateToken: whether next() is called, req.user.userId, and the
\* response sent otherwise
authenticateToken(authHeader, secretDefined) ==
    IF tokenOf(authHeader) = ""
    THEN [next |-> FALSE, status |-> 401, error |-> "Access token is required",
          user |-> ""]
    ELSE IF ~verifyToken(tokenOf(authHeader), secretDefined).ok
    THEN [next |-> FALSE, status |-> 401, error |-> "Invalid or expired token",
          user |-> ""]
    ELSE [next |-> TRUE, status |-> 0, error |-> "",
          user |-> verifyToken(tokenOf(authHeader), secretDefined).userId]

\* optionalAuth: next() is always called; req.user.userId ("": no req.user)
optionalAuth(authHeader, secretDefined) ==
    IF tokenOf(authHeader) # "" /\ verifyToken(tokenOf(authHeader), secretDefined).ok
    THEN verifyToken(tokenOf(authHeader), secretDefined).userId
    ELSE ""

\* Authorization headers of the requests
AuthHeaders ==
    { NoHeader, HeaderOf(<<"">>), HeaderOf(<<"Bearer">>), HeaderOf(<<"Bearer", "">>),
      HeaderOf(<<"Bearer", "", tok_A>>), HeaderOf(<<tok_A>>),
      HeaderOf(<<"Bearer", tok_A>>), HeaderOf(<<"Bearer", tok_B>>),
      HeaderOf(<<"Bearer", tok_expired>>), HeaderOf(<<"Bearer", tok_forged>>),
      HeaderOf(<<"Basic", tok_A>>) }

-----------------------------------------------------------------------------
(* controllers/scheduleController.ts: createSchedule, one request.  The
   handler gives up control at the await of processSchedulePrompt and at the
   await of scheduleService.createSchedule. *)

\* The Authorization header and req.body.userId ("": none) of the requests
\* to POST /schedules
Credentials ==
    { [header |-> NoHeader, userId |-> ""],
      [header |-> NoHeader, userId |-> "B"],
      [header |-> HeaderOf(<<"Bearer", tok_A>>), userId |-> ""],
      [header |-> HeaderOf(<<"Bearer", tok_A>>), userId |-> "A"],
      [header |-> HeaderOf(<<"Bearer", tok_A>>), userId |-> "B"],
      [header |-> HeaderOf(<<"Bearer", tok_forged>>), userId |-> "B"] }

\* The request: whether validationResult(req) is empty, whether req.body has
\* a prompt, the prompt, the Authorization header and req.body.userId
Requests ==
    { [valid |-> TRUE, hasPrompt |-> TRUE, prompt |-> p,
       header |-> c.header, userId |-> c.userId] :
         p \in Prompts, c \in Credentials }
    \cup { [valid |-> FALSE, hasPrompt |-> FALSE, prompt |-> <<>>,
            header |-> NoHeader, userId |-> ""],
           [valid |-> FALSE, hasPrompt |-> TRUE, prompt |-> <<w_call>>,
            header |-> HeaderOf(<<"Bearer", tok_A>>), userId |-> ""],
           [valid |-> TRUE, hasPrompt |-> FALSE, prompt |-> <<>>,
            header |-> NoHeader, userId |-> ""] }

e_db == "Schedule validation failed"
e_down == "connect ECONNREFUSED"

\* What schedule.save() throws
SaveErrors == {ErrorOf(e_db), ErrorOf(e_down)}

\* scheduleService.createSchedule's catch block:
\* error instanceof Error ? error.message : 'Failed to create schedule'
saveErrorMessage(e) ==
    IF e.kind = "Error" THEN e.message ELSE "Failed to create schedule"

\* res.status(code).json(...)
Respond(code, json) ==
    [ctl EXCEPT !.pc = "responded", !.status = code, !.body = json]

ErrorBody(message) == [NoBody EXCEPT !.error = message]

\* aiResponse.error || 'Failed to process schedule prompt', and
\* scheduleResult.error || 'Failed to create schedule'
orElse(message, fallback) == IF message = "" THEN fallback ELSE message

\* The test of line 46 letting every aiResponse through
extractionFailed_Never(aiResponse) == FALSE

\* !aiResponse.success || !aiResponse.data
extractionFailed(aiResponse) ==
    ~aiResponse.success \/ aiResponse.data = Null

\* new Schedule({...scheduleData, userId, aiPrompt, aiResponse}) as saved
\* with _id id: the schema fills in the default priority (aiResponse and the
\* timestamps are left out)
Document(scheduleData, aiPrompt, userId, id) ==
    [id |-> id, userId |-> userId,
     fields |-> IF Has(scheduleData, "priority") THEN scheduleData
                ELSE Put(scheduleData, "priority", v_medium),
     aiPrompt |-> aiPrompt]

\* const { prompt, userId } = req.body: the userId createSchedule hands to
\* scheduleService.createSchedule
savedUserId(user, bodyUserId) == bodyUserId

InitCtl ==
    /\ tz \in Zones
    /\ clock \in StartInstants
    /\ elapsed = 0
    /\ PipeIdle
    /\ fnText = <<>>
    /\ fnOut = NoCall
    /\ ExtIdle

\* POST /schedules: optionalAuth, then createSchedule up to the await of
\* processSchedulePrompt
CtlRequest(req) ==
    /\ ctl.pc = "idle"
    /\ ctl' = IF ~req.valid
              THEN [Respond(400, ErrorBody("Validation failed"))
                      EXCEPT !.user = optionalAuth(req.header, TRUE)]
              ELSE IF ~req.hasPrompt
              THEN [Respond(500, ErrorBody("Internal server error"))
                      EXCEPT !.user = optionalAuth(req.header, TRUE)]
              ELSE [ctl EXCEPT !.pc = "extracting", !.prompt = req.prompt,
                               !.user = optionalAuth(req.header, TRUE),
                               !.userId = req.userId]
    /\ UNCHANGED <<tz, clock, elapsed, pipeVars, fnVars, fnData, concVars, stored,
                   restVars>>

\* Lines 44-60 once processSchedulePrompt has returned aiResponse
afterExtraction(aiResponse) ==
    IF extractionFailed(aiResponse)
    THEN [Respond(400, ErrorBody(orElse(aiResponse.error,
                                        "Failed to process schedule prompt")))
            EXCEPT !.extracted = TRUE, !.aiResponse = aiResponse]
    ELSE [ctl EXCEPT !.pc = "saving", !.extracted = TRUE,
                     !.aiResponse = aiResponse,
                     !.saveCalls = Append(@, aiResponse.data)]

\* processSchedulePrompt returns for a model reply of text
CtlExtracted(text) ==
    /\ ctl.pc = "extracting"
    /\ ctl' = afterExtraction(processReply(ctl.prompt, text, clock, tz).result)
    /\ UNCHANGED <<tz, clock, elapsed, pipeVars, fnVars, fnData, concVars, stored,
                   restVars>>

\* processSchedulePrompt returns after the model call threw e
CtlExtractionFails(e) ==
    /\ ctl.pc = "extracting"
    /\ ctl' = afterExtraction(Failure(catchMessage(e)))
    /\ UNCHANGED <<tz, clock, elapsed, pipeVars, fnVars, fnData, concVars, stored,
                   restVars>>

\* scheduleService.createSchedule saved the document: 201
CtlSaved ==
    /\ ctl.pc = "saving"
    /\ LET doc == Document(ctl.saveCalls[Len(ctl.saveCalls)], ctl.prompt,
                           savedUserId(ctl.user, ctl.userId), Len(stored) + 1)
       IN  /\ stored' = Append(stored, doc)
           /\ ctl' = [Respond(201, [success |-> TRUE, error |-> "", data |-> doc,
                                    message |-> "Schedule created successfully"])
                        EXCEPT !.saved = "ok"]
    /\ UNCHANGED <<tz, clock, elapsed, pipeVars, fnVars, fnData, concVars, restVars>>

\* schedule.save() threw e, scheduleService.createSchedule returned
\* { success: false, error }: 500
CtlSaveFails(e) ==
    /\ ctl.pc = "saving"
    /\ ctl' = [Respond(500, ErrorBody(orElse(saveErrorMessage(e),
                                             "Failed to create schedule")))
                 EXCEPT !.saved = "failed"]
    /\ UNCHANGED <<tz, clock, elapsed, pipeVars, fnVars, fnData, concVars, stored,
                   restVars>>

NextCtl ==
    \/ \E req \in Requests : CtlRequest(req)
    \/ \E text \in Replies : CtlExtracted(text)
    \/ \E e \in ModelErrors : CtlExtractionFails(e)
    \/ CtlSaved
    \/ \E e \in SaveErrors : CtlSaveFails(e)

SpecCtl == InitCtl /\ [][NextCtl]_vars

-----------------------------------------------------------------------------
(* routes/scheduleRoutes.ts and routes/authRoutes.ts: one request to a route
   guarded by authenticateToken, over a collection that holds schedules of
   users A and B and one schedule without userId.  limit, offset and the
   sort order of the queries are left out. *)

GuardedRoutes ==
    {"getSchedules", "getSchedulesByDateRange", "getSchedulesByType",
     "getScheduleById", "updateSchedule", "deleteSchedule", "getProfile"}

IdRoutes == {"getScheduleById", "updateSchedule", "deleteSchedule"}

d_20240301 == <<"2", "0", "2", "4", "-", "0", "3", "-", "0", "1">>
v_newTitle == <<"M", "o", "v", "e", "d">>

\* The schedules collection when the request arrives
InitialSchedules ==
    << Document(MakeCandidate(v_meeting, v_title, d_20240115, t_0900, Absent),
                <<w_call>>, "A", 1),
       Document(MakeCandidate(v_task, v_title, d_20240115, t_0920, v_high),
                <<w_call>>, "B", 2),
       Document(MakeCandidate(v_meeting, v_title, d_20240301, t_0900, Absent),
                <<w_call>>, "B", 3),
       Document(MakeCandidate(v_reminder, v_title, d_20240230, t_0900, Absent),
                <<w_call>>, "", 4) >>

\* The requests: the route, the Authorization header, whether JWT_SECRET is
\* defined, and what the handlers read of req.query and req.params
RouteRequests ==
    { [route |-> r, header |-> h, secretDefined |-> TRUE, userId |-> u,
       id |-> IF r \in IdRoutes THEN i ELSE 0,
       type |-> IF r = "getSchedulesByType" THEN v_meeting ELSE <<>>,
       startDate |-> IF r = "getSchedulesByDateRange" THEN d_20240115 ELSE <<>>,
       endDate |-> IF r = "getSchedulesByDateRange" THEN d_20240230 ELSE <<>>] :
         r \in GuardedRoutes, h \in AuthHeaders, u \in {""} \cup UserIds,
         i \in {1, 2, 5} }
    \cup { [route |-> r, header |-> HeaderOf(<<"Bearer", tok_A>>),
            secretDefined |-> FALSE, userId |-> "", id |-> 0, type |-> <<>>,
            startDate |-> <<>>, endDate |-> <<>>] : r \in GuardedRoutes }

\* The order of two characters of a date: "-" sorts before the digits
Ord(c) == IF IsDigit(c) THEN 1 + DigitVal(c) ELSE 0

\* a <= b as strings
RECURSIVE StrLeq(_, _)
StrLeq(a, b) ==
    IF a = <<>> THEN TRUE
    ELSE IF b = <<>> THEN FALSE
    ELSE IF Ord(a[1]) # Ord(b[1]) THEN Ord(a[1]) < Ord(b[1])
    ELSE StrLeq(Tail(a), Tail(b))

\* if (userId) { query.userId = userId }: the documents a query with this
\* userId can match
OwnedBy(doc, userId) == userId = "" \/ doc.userId = userId

\* The query each service method builds for the request, as a test of a
\* document
Matches(doc, req) ==
    /\ OwnedBy(doc, req.userId)
    /\ req.route \in IdRoutes => doc.id = req.id
    /\ req.route = "getSchedulesByType" => doc.fields["type"] = req.type
    /\ req.route = "getSchedulesByDateRange"
         => /\ StrLeq(req.startDate, doc.fields["date"])
            /\ StrLeq(doc.fields["date"], req.endDate)

\* The _id of the documents of the collection that the request's query matches
Matching(req) ==
    {stored[k].id : k \in {j \in 1..Len(stored) : Matches(stored[j], req)}}

InitRoutes ==
    /\ tz = 0
    /\ clock = Instant(2024, 1, 15, 8, 50)
    /\ elapsed = 0
    /\ PipeIdle
    /\ fnText = <<>>
    /\ fnOut = NoCall
    /\ fnData = Null
    /\ ConcIdle
    /\ ctl = IdleController
    /\ stored = InitialSchedules
    /\ HttpIdle /\ GeminiIdle /\ DbIdle

\* The request arrives: authenticateToken, and, if it calls next(), the
\* handler up to its await of the service
RouteArrives(req) ==
    /\ http.pc = "idle"
    /\ LET mw == authenticateToken(req.header, req.secretDefined)
       IN  http' = IF ~mw.next
                   THEN [http EXCEPT !.pc = "responded", !.req = req,
                                     !.status = mw.status, !.error = mw.error]
                   ELSE IF /\ req.route = "getSchedulesByDateRange"
                           /\ (req.startDate = <<>> \/ req.endDate = <<>>)
                   THEN [http EXCEPT
                           !.pc = "responded", !.req = req, !.user = mw.user,
                           !.handlerRan = TRUE, !.status = 400,
                           !.error = "Start date and end date are required"]
                   ELSE [http EXCEPT !.pc = "handler", !.req = req,
                                     !.user = mw.user, !.handlerRan = TRUE]
    /\ UNCHANGED <<tz, clock, elapsed, pipeVars, fnVars, fnData, concVars,
                   ctlVars, gemini, db>>

\* The collection after the request's service call
storedAfter(req) ==
    CASE req.route = "deleteSchedule" ->
           SelectSeq(stored, LAMBDA d : d.id \notin Matching(req))
      [] req.route = "updateSchedule" ->
           [k \in 1..Len(stored) |->
              IF stored[k].id \in Matching(req)
              THEN [stored[k] EXCEPT !.fields = Put(@, "title", v_newTitle)]
              ELSE stored[k]]
      [] OTHER -> stored

\* The service call of a schedule route returns and the handler responds:
\* the list routes with the documents found, the routes with an id with
\* the one document or 404
ScheduleHandlerResponds ==
    /\ http.pc = "handler"
    /\ http.req.route # "getProfile"
    /\ stored' = storedAfter(http.req)
    /\ http' = [http EXCEPT
                  !.pc = "responded",
                  !.filter = http.req.userId,
                  !.touched = Matching(http.req),
                  !.status = IF http.req.route \in IdRoutes
                                  /\ Matching(http.req) = {}
                             THEN 404 ELSE 200,
                  !.error = IF http.req.route \in IdRoutes
                                 /\ Matching(http.req) = {}
                            THEN "Schedule not found" ELSE ""]
    /\ UNCHANGED <<tz, clock, elapsed, pipeVars, fnVars, fnData, concVars, ctl,
                   gemini, db>>

\* The query of a schedule route throws: the service returns success false
ScheduleHandlerFails ==
    /\ http.pc = "handler"
    /\ http.req.route # "getProfile"
    /\ http' = [http EXCEPT
                  !.pc = "responded",
                  !.filter = http.req.userId,
                  !.status = IF http.req.route \in IdRoutes THEN 404 ELSE 500,
                  !.error = e_down]
    /\ UNCHANGED <<tz, clock, elapsed, pipeVars, fnVars, fnData, concVars,
                   ctlVars, gemini, db>>

\* AuthController.getProfile: the user of req.user, 404 when it is not found
ProfileHandlerResponds(found) ==
    /\ http.pc = "handler"
    /\ http.req.route = "getProfile"
    /\ http' = IF http.user = ""
               THEN [http EXCEPT !.pc = "responded", !.status = 401,
                                 !.error = "User not authenticated"]
               ELSE [http EXCEPT !.pc = "responded", !.filter = http.user,
                                 !.status = IF found THEN 200 ELSE 404,
                                 !.error = IF found THEN "" ELSE "User not found"]
    /\ UNCHANGED <<tz, clock, elapsed, pipeVars, fnVars, fnData, concVars,
                   ctlVars, gemini, db>>

NextRoutes ==
    \/ \E req \in RouteRequests : RouteArrives(req)
    \/ ScheduleHandlerResponds
    \/ ScheduleHandlerFails
    \/ \E found \in BOOLEAN : ProfileHandlerResponds(found)

SpecRoutes == InitRoutes /\ [][NextRoutes]_vars

-----------------------------------------------------------------------------
(* services/geminiService.ts, getGeminiService: the lazily constructed
   instance.  gemini.instance is _geminiService, the number of the instance
   or 0 for null; gemini.constructed lists, for each instance whose
   constructor completed, the key it was constructed with; gemini.returned
   lists the outcome of each call. *)

MaxCalls == 8

\* The values of process.env['GEMINI_API_KEY']: not set, set empty, set
KeyValues == {"undefined", "", "k1", "k2"}

\* if (!apiKey)
NoApiKey(apiKey) == apiKey \in {"undefined", ""}

\* A getGeminiService that constructs an instance on every call
getGeminiService_Uncached(g) ==
    IF NoApiKey(g.apiKey)
    THEN [g EXCEPT !.returned = Append(@, [key |-> g.apiKey, threw |-> TRUE,
                                           instance |-> 0, cached |-> g.instance,
                                           constructedNow |-> FALSE])]
    ELSE [g EXCEPT !.constructed = Append(@, g.apiKey),
                   !.instance = Len(g.constructed) + 1,
                   !.returned = Append(@, [key |-> g.apiKey, threw |-> FALSE,
                                           instance |-> Len(g.constructed) + 1,
                                           cached |-> Len(g.constructed) + 1,
                                           constructedNow |-> TRUE])]

\* getGeminiService(): the module state after the call, its outcome appended
\* to returned
getGeminiService(g) ==
    IF g.instance # 0
    THEN [g EXCEPT !.returned = Append(@, [key |-> g.apiKey, threw |-> FALSE,
                                           instance |-> g.instance,
                                           cached |-> g.instance,
                                           constructedNow |-> FALSE])]
    ELSE IF NoApiKey(g.apiKey)
    THEN [g EXCEPT !.returned = Append(@, [key |-> g.apiKey, threw |-> TRUE,
                                           instance |-> 0, cached |-> 0,
                                           constructedNow |-> FALSE])]
    ELSE [g EXCEPT !.constructed = Append(@, g.apiKey),
                   !.instance = Len(g.constructed) + 1,
                   !.returned = Append(@, [key |-> g.apiKey, threw |-> FALSE,
                                           instance |-> Len(g.constructed) + 1,
                                           cached |-> Len(g.constructed) + 1,
                                           constructedNow |-> TRUE])]

\* The process starts with the key set or not
InitService ==
    /\ tz = 0
    /\ clock = Instant(2024, 1, 15, 8, 50)
    /\ elapsed = 0
    /\ PipeIdle
    /\ fnText = <<>>
    /\ fnOut = NoCall
    /\ fnData = Null
    /\ ConcIdle /\ CtlIdle /\ HttpIdle /\ DbIdle
    /\ \E k \in KeyValues :
         gemini = [apiKey |-> k, instance |-> 0, constructed |-> <<>>,
                   returned |-> <<>>]

\* dotenv.config(): the key is loaded from the .env file; a variable the
\* process already has is not overridden
LoadEnv(k) ==
    /\ gemini.apiKey = "undefined"
    /\ gemini' = [gemini EXCEPT !.apiKey = k]
    /\ UNCHANGED <<tz, clock, elapsed, pipeVars, fnVars, fnData, concVars,
                   ctlVars, http, db>>

\* A caller calls getGeminiService()
CallGetGeminiService ==
    /\ Len(gemini.returned) < MaxCalls
    /\ gemini' = getGeminiService(gemini)
    /\ UNCHANGED <<tz, clock, elapsed, pipeVars, fnVars, fnData, concVars,
                   ctlVars, http, db>>

NextService ==
    \/ \E k \in KeyValues \ {"undefined"} : LoadEnv(k)
    \/ CallGetGeminiService

SpecService == InitService /\ [][NextService]_vars

-----------------------------------------------------------------------------
(* config/database.ts: the Database singleton.  connect and disconnect give
   up control at their awaits, so calls overlap with each other and with the
   events of the driver. *)

\* Calls of mongoose.connect, and of connection.close(), awaited at once
MaxPending == 2

\* Times the handlers are registered, once for each connect that succeeds
MaxListeners == 2

DriverEvents == {"error", "disconnected", "reconnected"}

\* The operation-visible part of the Database state
DbState(d) ==
    [isConnected |-> d.isConnected, listeners |-> d.listeners,
     connecting |-> d.connecting, closing |-> d.closing]

\* A step named step has been taken from state d to state e
Stepped(d, e, step) == [e EXCEPT !.last = step, !.prev = DbState(d)]

\* The handlers with an 'error' handler that only logs
onDriverEvent_ErrorIgnored(d, event) ==
    IF d.listeners = 0 \/ event = "error" THEN d
    ELSE [d EXCEPT !.isConnected = (event = "reconnected")]

\* mongoose.connection emits an event: the handlers registered by connect
\* run, if any
onDriverEvent(d, event) ==
    IF d.listeners = 0 THEN d
    ELSE [d EXCEPT !.isConnected = (event = "reconnected")]

InitDb ==
    /\ tz = 0
    /\ clock = Instant(2024, 1, 15, 8, 50)
    /\ elapsed = 0
    /\ PipeIdle
    /\ fnText = <<>>
    /\ fnOut = NoCall
    /\ fnData = Null
    /\ ConcIdle /\ CtlIdle /\ HttpIdle /\ GeminiIdle
    /\ \E u \in BOOLEAN : db = [IdleDatabase EXCEPT !.uri = u]

DbFrame ==
    UNCHANGED <<tz, clock, elapsed, pipeVars, fnVars, fnData, concVars,
                ctlVars, http, gemini>>

\* connect() up to its await: returns when connected, throws when
\* MONGODB_URI is not defined, else calls mongoose.connect
ConnectCalled ==
    /\ db.connecting < MaxPending
    /\ db.listeners + db.connecting < MaxListeners
    /\ db' = IF db.isConnected
             THEN Stepped(db, db, "connect: already connected")
             ELSE IF ~db.uri
             THEN Stepped(db, db, "connect: MONGODB_URI not defined")
             ELSE Stepped(db, [db EXCEPT !.connecting = @ + 1],
                          "connect: awaiting")
    /\ DbFrame

\* mongoose.connect resolves: the flag is set and the handlers registered
ConnectSucceeds ==
    /\ db.connecting > 0
    /\ db' = Stepped(db, [db EXCEPT !.connecting = @ - 1,
                                   !.isConnected = TRUE,
                                   !.listeners = @ + 1,
                                   !.everConnected = TRUE,
                                   !.lastStatus = "connect succeeded"],
                     "connect: succeeded")
    /\ DbFrame

\* mongoose.connect rejects: the catch block logs and rethrows
ConnectFails ==
    /\ db.connecting > 0
    /\ db' = Stepped(db, [db EXCEPT !.connecting = @ - 1], "connect: failed")
    /\ DbFrame

\* disconnect() up to its await: returns when not connected, else calls
\* connection.close()
DisconnectCalled ==
    /\ db.closing < MaxPending
    /\ db' = IF ~db.isConnected
             THEN Stepped(db, db, "disconnect: not connected")
             ELSE Stepped(db, [db EXCEPT !.closing = @ + 1],
                          "disconnect: awaiting")
    /\ DbFrame

\* connection.close() resolves: the flag is cleared
DisconnectCloses ==
    /\ db.closing > 0
    /\ db' = Stepped(db, [db EXCEPT !.closing = @ - 1,
                                   !.isConnected = FALSE,
                                   !.lastStatus = "disconnect"],
                     "disconnect: closed")
    /\ DbFrame

\* connection.close() rejects: the catch block logs and rethrows
DisconnectFails ==
    /\ db.closing > 0
    /\ db' = Stepped(db, [db EXCEPT !.closing = @ - 1], "disconnect: failed")
    /\ DbFrame

\* The driver emits one of its events
DriverEmits(event) ==
    /\ db' = Stepped(db, [onDriverEvent(db, event) EXCEPT !.lastStatus = event],
                     event)
    /\ DbFrame

NextDb ==
    \/ ConnectCalled
    \/ ConnectSucceeds
    \/ ConnectFails
    \/ DisconnectCalled
    \/ DisconnectCloses
    \/ DisconnectFails
    \/ \E event \in DriverEvents : DriverEmits(event)

SpecDb == InitDb /\ [][NextDb]_vars

-----------------------------------------------------------------------------
(* Properties *)

\* The invocation has received the model's reply text and returned
Replied == pc = "done" /\ Len(steps) >= 3 /\ steps[3] = "match"

\* C1: when extractRelativeTimeExpression returns a phrase for the prompt and
\* the reply parses into a candidate, the candidate handed to the validator,
\* and the record returned on success, have the date and the time that
\* calculateRelativeTime gives for that phrase at the instant the override
\* read, whatever date and time the reply held.
C1_OverrideUnconditional ==
    (/\ Replied
     /\ parsed # Null
     /\ extractRelativeTimeExpression(userPrompt) # NoMatch)
    => /\ overrideAt >= 0
       /\ Has(processed, "date") /\ Has(processed, "time")
       /\ [date |-> processed["date"], time |-> processed["time"]]
            = calculateRelativeTime(extractRelativeTimeExpression(userPrompt),
                                    overrideAt, tz)
       /\ result.success => result.data = processed

\* C1 witness: a record is returned whose time the override changed
C1_Witness ==
    /\ Replied
    /\ result.success
    /\ overrideAt >= 0
    /\ Has(parsed, "time")
    /\ parsed["time"] # result.data["time"]

\* C1 witness: the reply already held the date and time the override writes
C1_WitnessAlreadyRight ==
    /\ Replied
    /\ result.success
    /\ overrideAt >= 0
    /\ parsed = result.data

\* C2: the date and time written by the override are those of the instant
\* embedded in the instruction plus the phrase's amount, however far the
\* clock advanced while the model call was pending.
C2_SingleReferenceInstant ==
    (Replied /\ overrideAt >= 0)
    => /\ overrideAt = promptAt
       /\ [date |-> processed["date"], time |-> processed["time"]]
            = calculateRelativeTime(extractRelativeTimeExpression(userPrompt),
                                    promptAt, tz)

\* The local calendar date of instant t
LocalDate(t) == DateString(LocalTime(t, tz) \div MinutesPerDay)

\* C3: the date and the time returned by calculateRelativeTime and by
\* getCurrentDateTime are the local date and the local HH:MM of one instant.
C3_DateAndTimeOfOneLocalInstant ==
    /\ fnOut.op = "calculateRelativeTime"
         => fnOut.dt = [date |-> LocalDate(resolvedInstant(fnText, clock, tz)),
                        time |-> localHHMM(resolvedInstant(fnText, clock, tz), tz)]
    /\ fnOut.op = "getCurrentDateTime"
         => fnOut.dt = [date |-> LocalDate(clock), time |-> localHHMM(clock, tz)]

\* The phrase is "in N <unit>" with the unit one of the two given words
IsInPhrase(expr, singular, plural) ==
    /\ Len(expr) = 3
    /\ ToLower(expr[1]) = s_in
    /\ AllDigits(expr[2])
    /\ parseInt(expr[2]) > 0
    /\ ToLower(expr[3]) \in {singular, plural}

\* The minute of the day of R's clock time
ClockMinute(t) == LocalTime(t, tz) % MinutesPerDay

\* R's clock time plus n minutes: the time, and the date that is R's date
\* (day number day0) advanced by one day for each midnight crossed
AfterMinutes(day0, t, n) ==
    [date |-> DateString(day0 + (ClockMinute(t) + n) \div MinutesPerDay),
     time |-> TimeString((ClockMinute(t) + n) % MinutesPerDay)]

\* C4: "in N minutes" and "in N hours" give the time N minutes (hours) after
\* R's clock time and R's date advanced by one day per midnight crossed, R's
\* date being read either as its local date or as the date the program
\* reports for R.
C4_MinutesHoursCarryIntoDate ==
    /\ (fnOut.op = "calculateRelativeTime" /\ IsInPhrase(fnText, s_minute, s_minutes))
         => fnOut.dt \in
              { AfterMinutes(LocalTime(clock, tz) \div MinutesPerDay, clock,
                             parseInt(fnText[2])),
                AfterMinutes(clock \div MinutesPerDay, clock, parseInt(fnText[2])) }
    /\ (fnOut.op = "calculateRelativeTime" /\ IsInPhrase(fnText, s_hour, s_hours))
         => fnOut.dt \in
              { AfterMinutes(LocalTime(clock, tz) \div MinutesPerDay, clock,
                             60 * parseInt(fnText[2])),
                AfterMinutes(clock \div MinutesPerDay, clock,
                             60 * parseInt(fnText[2])) }

NoAmountAndUnit(expr) ==
    ~ \E i \in 1..(Len(expr) - 2) :
          /\ EndsWith(ToLower(expr[i]), s_in)
          /\ AllDigits(expr[i + 1])
          /\ \E u \in 1..Len(UnitWords) : StartsWith(ToLower(expr[i + 2]), UnitWords[u])

\* C6: for a phrase in which no amount and unit are found, calculateRelativeTime
\* returns the date and time of the reference instant itself, as
\* getCurrentDateTime reports them.
C6_FallbackIsReferenceInstant ==
    (fnOut.op = "calculateRelativeTime" /\ NoAmountAndUnit(fnText))
    => fnOut.dt = getCurrentDateTime(clock, tz)

\* C6 witness: the fallback was taken for a phrase that names an amount and a
\* unit in the "from now" form
C6_Witness ==
    /\ fnOut.op = "calculateRelativeTime"
    /\ NoAmountAndUnit(fnText)
    /\ Len(fnText) = 4
    /\ AllDigits(fnText[1])
    /\ fnOut.dt = getCurrentDateTime(clock, tz)

\* The prompt's only relative-time content is qualitative: it has "tomorrow"
\* or "next week|month|year" and no number
QualitativeOnly(prompt) ==
    /\ \E i \in 1..Len(prompt) :
          \/ ToLower(prompt[i]) = s_tomorrow
          \/ /\ i < Len(prompt)
             /\ ToLower(prompt[i]) = s_next
             /\ ToLower(prompt[i + 1]) \in {s_week, s_month, s_year}
    /\ \A i \in 1..Len(prompt) : ~AllDigits(prompt[i])

\* C7: for a prompt whose only relative-time content is a qualitative phrase,
\* hasRelativeTimeExpression is true, extractRelativeTimeExpression returns
\* none, and the candidate's date and time stay as the model produced them.
C7_QualitativeLeavesCandidate ==
    (Replied /\ parsed # Null /\ QualitativeOnly(userPrompt))
    => /\ hasRelativeTimeExpression(userPrompt)
       /\ extractRelativeTimeExpression(userPrompt) = NoMatch
       /\ overrideAt = -1
       /\ processed = parsed
       /\ result.success => result.data = parsed

\* C7 witness: a record is returned for the prompt "... tomorrow"
C7_Witness ==
    /\ Replied
    /\ QualitativeOnly(userPrompt)
    /\ result.success
    /\ result.data = parsed
    /\ result.data["date"] = d_20240115

\* The text has a phrase of each kind
BothKinds(text) ==
    /\ \E i \in 1..Len(text) : InPatternAt(text, i)
    /\ \E i \in 1..Len(text) : FromNowPatternAt(text, i)

\* Where the leftmost "in N unit" and "N unit from now" phrases start
FirstIn(text) ==
    CHOOSE i \in 1..Len(text) :
        InPatternAt(text, i) /\ \A j \in 1..(i - 1) : ~InPatternAt(text, j)

FirstFromNow(text) ==
    CHOOSE i \in 1..Len(text) :
        FromNowPatternAt(text, i) /\ \A j \in 1..(i - 1) : ~FromNowPatternAt(text, j)

\* C8 as stated: for a text with a phrase of each kind,
\* extractRelativeTimeExpression returns the phrase that starts leftmost.
C8_LeftmostOfEitherKind ==
    (fnOut.op = "extractRelativeTimeExpression" /\ BothKinds(fnText))
    => fnOut.phrase =
         IF FirstIn(fnText) < FirstFromNow(fnText)
         THEN SubSeq(fnText, FirstIn(fnText), FirstIn(fnText) + 2)
         ELSE SubSeq(fnText, FirstFromNow(fnText), FirstFromNow(fnText) + 3)

\* C8 amended: for a text with a phrase of each kind,
\* extractRelativeTimeExpression returns the leftmost "in N unit" phrase, also
\* when an "N unit from now" phrase starts before it.
C8_InPhraseBeforeFromNow ==
    (fnOut.op = "extractRelativeTimeExpression" /\ BothKinds(fnText))
    => fnOut.phrase = SubSeq(fnText, FirstIn(fnText), FirstIn(fnText) + 2)

\* C8 witness: the "in N unit" phrase was returned although an
\* "N unit from now" phrase starts before it
C8_Witness ==
    /\ fnOut.op = "extractRelativeTimeExpression"
    /\ BothKinds(fnText)
    /\ FirstFromNow(fnText) < FirstIn(fnText)
    /\ fnOut.phrase = SubSeq(fnText, FirstIn(fnText), FirstIn(fnText) + 2)

\* The brace that closes the object open at depth when the scan is at token i
\* (0: none)
RECURSIVE ClosingBrace(_, _, _)
ClosingBrace(text, i, depth) ==
    IF i > Len(text) THEN 0
    ELSE IF text[i].k = "lb" THEN ClosingBrace(text, i + 1, depth + 1)
    ELSE IF text[i].k = "rb" /\ depth = 1 THEN i
    ELSE IF text[i].k = "rb" THEN ClosingBrace(text, i + 1, depth - 1)
    ELSE ClosingBrace(text, i + 1, depth)

\* The first balanced {...} span of a text (<<>>: none)
FirstBalancedSpan(text) ==
    LET opens == {i \in 1..Len(text) : text[i].k = "lb"}
        first == CHOOSE i \in opens : \A j \in opens : i <= j
    IN  IF opens = {} THEN <<>>
        ELSE IF ClosingBrace(text, first + 1, 1) = 0 THEN <<>>
        ELSE SubSeq(text, first, ClosingBrace(text, first + 1, 1))

\* C9: the candidate is parsed from the first balanced {...} span of the
\* reply, whatever follows that span.
C9_FirstBalancedSpanParsed ==
    (Replied /\ FirstBalancedSpan(reply) # <<>>)
    => parsed = IF JSONparse(FirstBalancedSpan(reply)).ok
                THEN JSONparse(FirstBalancedSpan(reply)).obj
                ELSE Null

\* No { of the reply has a } after it
NoObjectSubstring(text) ==
    ~ \E i, j \in 1..Len(text) : i < j /\ text[i].k = "lb" /\ text[j].k = "rb"

\* C10: a reply with no {...} substring gives success false, data null and
\* the error 'No valid JSON found in AI response', and neither the override
\* nor the validator runs.
C10_NoStructuredReply ==
    (Replied /\ NoObjectSubstring(reply))
    => /\ result = [success |-> FALSE, data |-> Null,
                    error |-> "No valid JSON found in AI response"]
       /\ \A i \in 1..Len(steps) :
             steps[i] \notin {"JSON.parse", "postProcessScheduleData",
                              "calculateRelativeTime", "validateScheduleData"}
       /\ overrideAt = -1
       /\ processed = Null

\* C10 witness: the reply has braces, none closing an open one, and the
\* prompt has a relative phrase
C10_Witness ==
    /\ Replied
    /\ NoObjectSubstring(reply)
    /\ \E i \in 1..Len(reply) : reply[i].k = "lb"
    /\ extractRelativeTimeExpression(userPrompt) # NoMatch
    /\ result.error = "No valid JSON found in AI response"

\* The reply has a { with a } after it, and the text from its first { to its
\* last } does not parse
UnparsableObject(text) ==
    /\ ~NoObjectSubstring(text)
    /\ ~JSONparse(jsonMatch(text)).ok

\* C11: a reply whose {...} substring does not parse gives success false and
\* data null with JSON.parse's error as the error, which is neither the error
\* of a reply without an object nor the error of a candidate the validator
\* rejected; the override and the validator do not run.  Conversely a reply
\* without an object, or a rejected candidate, never gives JSON.parse's error.
C11_MalformedReply ==
    /\ (Replied /\ UnparsableObject(reply))
         => /\ result = [success |-> FALSE, data |-> Null, error |-> "SyntaxError"]
            /\ result.error \notin {"No valid JSON found in AI response",
                                    "Invalid schedule data structure"}
            /\ parsed = Null /\ processed = Null
            /\ \A i \in 1..Len(steps) :
                  steps[i] \notin {"postProcessScheduleData",
                                   "calculateRelativeTime", "validateScheduleData"}
    /\ (Replied /\ ~UnparsableObject(reply)) => result.error # "SyntaxError"

\* C11 witness: the reply's span from first { to last } holds two objects and
\* the prompt has a relative phrase
C11_Witness ==
    /\ Replied
    /\ UnparsableObject(reply)
    /\ Len(jsonMatch(reply)) > 2
    /\ extractRelativeTimeExpression(userPrompt) # NoMatch
    /\ result.error = "SyntaxError"

\* The candidate JSON.parse reads from an object with the members ms
CandidateOf(ms) == JSONparse(<<LB>> \o ms \o <<RB>>).obj

\* The error processSchedulePrompt returns for a candidate the validator
\* rejects
RejectionError(data) == afterPostProcess(data, data, -1).result.error

\* C12: when the validator rejects the candidate, the error of the returned
\* result tells which check failed: it differs from the error returned for
\* any candidate that fails another of the five checks (required field, type,
\* priority, date format, time format).
C12_ReasonNamesFailedCheck ==
    (Replied /\ processed # Null /\ validationFailure(processed) # "")
    => \A ms \in MemberLists :
          validationFailure(CandidateOf(ms))
                \notin {"", validationFailure(processed)}
          => RejectionError(CandidateOf(ms)) # result.error

\* s is four digits, "-", two digits, "-", two digits
FourTwoTwo(s) ==
    /\ Len(s) = 10
    /\ AllDigits(SubSeq(s, 1, 4)) /\ AllDigits(SubSeq(s, 6, 7))
    /\ AllDigits(SubSeq(s, 9, 10))
    /\ s[5] = "-" /\ s[8] = "-"

\* s is two digits, ":", two digits
TwoColonTwo(s) ==
    /\ Len(s) = 5
    /\ AllDigits(SubSeq(s, 1, 2)) /\ AllDigits(SubSeq(s, 4, 5))
    /\ s[3] = ":"

\* The four required fields are present and non-empty, the type is one of the
\* four, the date and the time have their forms
RequiredWellFormed(data) ==
    /\ \A f \in {"type", "title", "date", "time"} : Has(data, f) /\ data[f] # <<>>
    /\ data["type"] \in {v_meeting, v_reminder, v_task, v_appointment}
    /\ FourTwoTwo(data["date"])
    /\ TwoColonTwo(data["time"])

\* C13: validateScheduleData accepts a candidate if and only if type, title,
\* date and time are present and non-empty, type is one of meeting, reminder,
\* task, appointment, priority is absent or one of low, medium, high, date is
\* DDDD-DD-DD and time is DD:DD.
C13_AcceptsExactlyWellFormed ==
    fnOut.op = "validateScheduleData"
    => (fnOut.has <=>
          /\ RequiredWellFormed(fnData)
          /\ (~Has(fnData, "priority")
                \/ fnData["priority"] \in {v_low, v_medium, v_high}))

\* validateScheduleData accepts exactly the candidates of C13 and those that
\* differ from them by a priority that is the empty string
AcceptsWellFormedOrEmptyPriority ==
    fnOut.op = "validateScheduleData"
    => (fnOut.has <=>
          /\ RequiredWellFormed(fnData)
          /\ (~Has(fnData, "priority")
                \/ fnData["priority"] \in {<<>>, v_low, v_medium, v_high}))

\* The particular cases of C13: a candidate missing title, type "birthday",
\* date "01-15-2024" and time "9:00" are rejected, the four required fields
\* alone are accepted
ParticularCases ==
    fnOut.op = "validateScheduleData"
    => /\ ~Has(fnData, "title") => ~fnOut.has
       /\ (Has(fnData, "type") /\ fnData["type"] = v_birthday) => ~fnOut.has
       /\ (Has(fnData, "date") /\ fnData["date"] = d_01152024) => ~fnOut.has
       /\ (Has(fnData, "time") /\ fnData["time"] = t_900) => ~fnOut.has
       /\ fnData = MakeCandidate(v_reminder, v_title, d_20240115, t_0900, Absent)
            => fnOut.has

\* C14: a candidate whose date is DDDD-DD-DD and whose time is DD:DD fails
\* neither the date check nor the time check, whatever day and minute the
\* digits spell and whether the reply or the override wrote them; when its
\* other fields pass too, it is returned with that date and time.
C14_PatternOnly ==
    (/\ Replied
     /\ processed # Null
     /\ Has(processed, "date") /\ FourTwoTwo(processed["date"])
     /\ Has(processed, "time") /\ TwoColonTwo(processed["time"]))
    => /\ validationFailure(processed)
             \notin {"Invalid date format", "Invalid time format"}
       /\ (/\ RequiredWellFormed(processed)
           /\ (~Has(processed, "priority")
                 \/ processed["priority"] \in {v_low, v_medium, v_high}))
          => result = [success |-> TRUE, data |-> processed, error |-> ""]

\* C14 witness: the reply's date 2024-02-30 and time 99:99 are returned
C14_Witness ==
    /\ Replied
    /\ overrideAt = -1
    /\ result.success
    /\ result.data["date"] = d_20240230
    /\ result.data["time"] = t_9999

\* C14 witness on the override path: the override replaced the reply's date
\* and time, and what it wrote was checked by form and returned
C14_WitnessOverride ==
    /\ Replied
    /\ overrideAt >= 0
    /\ parsed # Null /\ Has(parsed, "date") /\ parsed["date"] = d_20240230
    /\ result.success
    /\ result.data["date"] # d_20240230

\* C15: when the reply's object has no priority, the candidate handed to the
\* validator has none, it is accepted exactly when it would be accepted with
\* priority "medium", and the record returned on success has no priority.
C15_AbsentPriorityStaysAbsent ==
    (Replied /\ parsed # Null /\ ~Has(parsed, "priority"))
    => /\ ~Has(processed, "priority")
       /\ result.success <=> validateScheduleData(Put(processed, "priority", v_medium))
       /\ result.success => ~Has(result.data, "priority")

\* C15 witness: a reply without priority is returned as a record
C15_Witness ==
    /\ Replied
    /\ parsed # Null
    /\ ~Has(parsed, "priority")
    /\ result.success
    /\ Has(result.data, "title")
    /\ ~Has(result.data, "priority")

\* A step of the invocation failed: the model call threw, the reply had no
\* {...} substring, the substring did not parse, or the validator rejected
\* the candidate
SomeStepFailed ==
    \/ thrown # NoThrow
    \/ /\ Replied
       /\ \/ NoObjectSubstring(reply)
          \/ UnparsableObject(reply)
          \/ validationFailure(processed) # ""

\* C16: a returned result with success true holds the candidate that passed
\* every check of the validator, all four required fields in it; a returned
\* result has success false exactly when a step failed, and then its data is
\* null.
C16_NoPartialAcceptance ==
    pc = "done"
    => /\ result.success
            => /\ result.data = processed
               /\ validationFailure(result.data) = ""
               /\ RequiredWellFormed(result.data)
               /\ Falsy(result.data, "priority")
                    \/ result.data["priority"] \in {v_low, v_medium, v_high}
       /\ ~result.success <=> SomeStepFailed
       /\ ~result.success => result.data = Null

\* C16 witness: a candidate with a type and no title was rejected
C16_Witness ==
    /\ Replied
    /\ processed # Null
    /\ Has(processed, "type") /\ ~Has(processed, "title")
    /\ result = Failure("Invalid schedule data structure")

\* The occurrences of step in the steps run so far
Occurrences(step) == Cardinality({i \in 1..Len(steps) : steps[i] = step})

\* C17: an invocation of processSchedulePrompt calls the model once: never
\* before createPrompt, once from then on, and still once when it has
\* returned, whatever it returned.
C17_OneModelCall ==
    /\ modelCalls = Occurrences("generateContent")
    /\ pc = "idle" => modelCalls = 0
    /\ pc \in {"pending", "done"} => modelCalls = 1

\* C17 witness: a model error has ended the invocation after one call; the
\* three witnesses after it are the other failures
C17_Witness ==
    /\ pc = "done"
    /\ ~result.success
    /\ modelCalls = 1
    /\ thrown # NoThrow

\* C17 witness: a reply without an object ended the invocation after one call
C17_WitnessNoObject ==
    Replied /\ NoObjectSubstring(reply) /\ modelCalls = 1

\* C17 witness: a malformed object ended the invocation after one call
C17_WitnessMalformed ==
    Replied /\ UnparsableObject(reply) /\ modelCalls = 1

\* C17 witness: a rejected candidate ended the invocation after one call
C17_WitnessSchemaInvalid ==
    /\ Replied
    /\ result.error = "Invalid schedule data structure"
    /\ modelCalls = 1

\* C18: when the model call throws, the invocation returns success false and
\* data null with the thrown error's message as the error, having run nothing
\* after the model call but the catch block: no match, no parse, no
\* override, no validation.
C18_ModelErrorSurfaced ==
    (pc = "done" /\ thrown # NoThrow)
    => /\ result = [success |-> FALSE, data |-> Null, error |-> thrown.message]
       /\ steps = <<"createPrompt", "generateContent", "catch">>
       /\ reply = <<>> /\ parsed = Null /\ processed = Null
       /\ overrideAt = -1

\* C18 witness: the model call failed for a prompt with a relative phrase
C18_Witness ==
    /\ pc = "done"
    /\ thrown = ErrorOf(e_quota)
    /\ result.error = e_quota
    /\ extractRelativeTimeExpression(userPrompt) # NoMatch

\* What an invocation with the locals r returns when it runs alone: given
\* the same prompt, the same reply or error from the model, and the same
\* clock reading at its continuation
AloneResult(r) ==
    IF r.thrown # NoThrow THEN Failure(catchMessage(r.thrown))
    ELSE processReply(r.prompt, r.text, r.replyAt, tz).result

\* C19: whatever the interleaving of the invocations on the shared instance,
\* the result of each invocation that has returned is the result it gives
\* alone for its own prompt, its own reply and its own clock reading.
C19_ConcurrentInvocationsIndependent ==
    \A i \in Invocations :
       inv[i].pc = "done" => inv[i].result = AloneResult(inv[i])

\* C19 witness: two invocations have returned different results, one of them
\* after the model had answered the other with a different text
C19_Witness ==
    \E i, j \in Invocations :
       /\ inv[i].pc = "done" /\ inv[j].pc = "done"
       /\ inv[i].thrown = NoThrow
       /\ inv[i].latest # inv[i].text
       /\ inv[j].text = inv[i].latest
       /\ inv[i].result.success /\ ~inv[j].result.success

\* C20: scheduleService.createSchedule is called, and a document stored,
\* only after processSchedulePrompt returned success with data, and with
\* that data; the response is 201 with the stored document exactly when
\* extraction and persistence both succeeded, 400 with the extraction's error
\* when the extraction failed, and 500 when persistence failed.
C20_PersistOnlyAfterExtraction ==
    /\ ctl.saveCalls # <<>>
         => /\ ctl.extracted
            /\ ctl.aiResponse.success /\ ctl.aiResponse.data # Null
            /\ ctl.saveCalls = <<ctl.aiResponse.data>>
    /\ stored # <<>> => (Len(stored) = 1 /\ ctl.saved = "ok" /\ ctl.saveCalls # <<>>)
    /\ ctl.pc = "responded"
         => /\ ctl.status = 201
                 <=> (ctl.extracted /\ ctl.aiResponse.success /\ ctl.saved = "ok")
            /\ ctl.status = 201
                 => /\ ctl.body.success
                    /\ ctl.body.data = stored[1]
                    /\ stored[1] = Document(ctl.aiResponse.data, ctl.prompt,
                                            ctl.userId, 1)
            /\ (ctl.extracted /\ ~ctl.aiResponse.success)
                 => /\ ctl.status = 400
                    /\ ctl.body = ErrorBody(ctl.aiResponse.error)
                    /\ ctl.saveCalls = <<>> /\ stored = <<>>
            /\ ctl.saved = "failed"
                 => (ctl.status = 500 /\ ~ctl.body.success /\ stored = <<>>)

\* C20 witness: a record was extracted and stored, and the response is 201
C20_Witness ==
    /\ ctl.pc = "responded"
    /\ ctl.status = 201
    /\ Len(stored) = 1
    /\ ctl.body.data.fields["title"] = v_title

\* C20 witness: the validator rejected the candidate and the response is 400
C20_WitnessExtractionFailed ==
    /\ ctl.pc = "responded"
    /\ ctl.extracted
    /\ ctl.status = 400
    /\ ctl.body.error = "Invalid schedule data structure"

\* C20 witness: the extraction succeeded, the save failed, the response is 500
C20_WitnessPersistenceFailed ==
    /\ ctl.pc = "responded"
    /\ ctl.aiResponse.success
    /\ ctl.saved = "failed"
    /\ ctl.status = 500
    /\ ctl.body.error = e_db

\* C22: when POST /schedules carries a token that verifyToken accepts, the
\* schedule stored has the userId of that token.
C22_StoredUnderTokenUser ==
    (ctl.pc = "responded" /\ ctl.status = 201 /\ ctl.user # "")
    => stored[Len(stored)].userId = ctl.user

\* The request's Authorization header carries, after its first space, a
\* token issued by the server for some user and still valid, and the server
\* has its secret
CarriesAcceptedToken(req) ==
    /\ req.header.present
    /\ Len(req.header.parts) >= 2
    /\ req.header.parts[2] \in {tok_A, tok_B}
    /\ req.secretDefined

\* The request carries no token: no header, or nothing after its first space
CarriesNoToken(req) ==
    \/ ~req.header.present
    \/ Len(req.header.parts) < 2
    \/ req.header.parts[2] = ""

C21_WitnessNoToken ==
    /\ http.pc = "responded"
    /\ ~http.req.header.present
    /\ http.error = "Access token is required"

\* C21 witness: the handler ran for user A's token
C21_WitnessHandlerRan ==
    /\ http.pc = "responded"
    /\ http.handlerRan
    /\ http.req.header = HeaderOf(<<"Bearer", tok_A>>)
    /\ http.status = 200

\* The handler ran for a token presented under another scheme than Bearer:
\* authenticateToken does not read the scheme
SchemeNotChecked ==
    /\ http.handlerRan
    /\ http.req.header.parts[1] # "Bearer"

\* The user whose token the request carries
TokenUser == http.user

\* The userId of the document of the initial collection with this _id
OwnerOf(id) ==
    LET k == CHOOSE j \in 1..Len(InitialSchedules) : InitialSchedules[j].id = id
    IN  InitialSchedules[k].userId

\* C29: a request to a schedule route authenticated with a user's token
\* reads and modifies only schedules of that user: the userId the service
\* filters by is the token's, never empty, and every document read, updated
\* or deleted has it.
C29_OnlyOwnSchedules ==
    (http.pc = "responded" /\ http.handlerRan /\ http.req.route # "getProfile"
       /\ http.status \in {200, 404})
    => /\ http.filter = TokenUser
       /\ \A id \in http.touched : OwnerOf(id) = TokenUser
       /\ \A k \in 1..Len(InitialSchedules) :
            InitialSchedules[k].userId # TokenUser
              => \E j \in 1..Len(stored) : stored[j] = InitialSchedules[k]

\* With user A's token and ?userId=B, the schedule of user B was deleted
DeletedAnotherUsersSchedule ==
    /\ http.pc = "responded"
    /\ http.req.route = "deleteSchedule"
    /\ TokenUser = "A"
    /\ http.status = 200
    /\ OwnerOf(http.req.id) = "B"
    /\ Len(stored) = Len(InitialSchedules) - 1

\* With user A's token and no userId in the query, the list holds the
\* schedules of every user
ListedEveryUsersSchedules ==
    /\ http.pc = "responded"
    /\ http.req.route = "getSchedules"
    /\ TokenUser = "A"
    /\ http.filter = ""
    /\ http.touched = {1, 2, 3, 4}

\* The calls of getGeminiService that returned
Returned == {i \in 1..Len(gemini.returned) : ~gemini.returned[i].threw}

\* C23: after any calls of getGeminiService at most one GeminiService has
\* been constructed and every call that returned has returned that instance;
\* a call with GEMINI_API_KEY not defined throws and leaves _geminiService
\* null, and the first call with the key defined constructs the instance.
C23_OneLazyInstance ==
    /\ Len(gemini.constructed) <= 1
    /\ \A i \in Returned : \A j \in Returned :
         gemini.returned[i].instance = gemini.returned[j].instance
    /\ \A i \in Returned :
         /\ gemini.returned[i].instance = 1
         /\ gemini.instance = 1
    /\ \A i \in 1..Len(gemini.returned) :
         LET r == gemini.returned[i]
         IN  /\ NoApiKey(r.key) => (r.threw /\ r.cached = 0)
             /\ ~NoApiKey(r.key)
                  => /\ ~r.threw
                     /\ r.constructedNow
                          = (\A j \in 1..(i - 1) : gemini.returned[j].threw)
    /\ (Returned = {}) = (gemini.instance = 0)
    /\ (Returned = {}) = (gemini.constructed = <<>>)

\* C23 witness: a call threw while the key was not defined, a later call
\* constructed the instance and the call after it returned the same one
C23_Witness ==
    /\ Len(gemini.returned) >= 3
    /\ \E i \in 1..(Len(gemini.returned) - 2) :
         /\ gemini.returned[i].threw
         /\ gemini.returned[i].key = "undefined"
         /\ gemini.returned[i + 1].constructedNow
         /\ ~gemini.returned[i + 2].threw
         /\ ~gemini.returned[i + 2].constructedNow
         /\ gemini.returned[i + 2].instance = gemini.returned[i + 1].instance

\* The number N of a phrase extractRelativeTimeExpression returned: its first
\* token of digits
PhraseAmount(phrase) ==
    parseInt(phrase[CHOOSE i \in 1..Len(phrase) :
                      /\ AllDigits(phrase[i])
                      /\ \A j \in 1..(i - 1) : ~AllDigits(phrase[j])])

\* The unit of a phrase extractRelativeTimeExpression returned: its first
\* token that is a unit word
PhraseUnit(phrase) ==
    ToLower(phrase[CHOOSE i \in 1..Len(phrase) :
                     /\ IsUnitWord(ToLower(phrase[i]))
                     /\ \A j \in 1..(i - 1) : ~IsUnitWord(ToLower(phrase[j]))])

\* C24: for every phrase extractRelativeTimeExpression returns, of either
\* form, the date and time the override writes are those of the reference
\* instant plus the phrase's N units.
C24_EveryPhraseDecomposed ==
    (Replied /\ overrideAt >= 0)
    => LET phrase == extractRelativeTimeExpression(userPrompt)
       IN  [date |-> processed["date"], time |-> processed["time"]]
             = formatDateTime(targetDate(overrideAt, PhraseAmount(phrase),
                                         PhraseUnit(phrase), tz), tz)

\* The override ran for a phrase "N unit from now" and wrote the date and
\* time of the reference instant itself
FromNowPhraseGetsFallback ==
    /\ Replied
    /\ overrideAt >= 0
    /\ FromNowPositions(userPrompt) # {}
    /\ InPositions(userPrompt) = {}
    /\ PhraseAmount(extractRelativeTimeExpression(userPrompt)) > 0
    /\ [date |-> processed["date"], time |-> processed["time"]]
         = getCurrentDateTime(overrideAt, tz)

\* The value of a field of the candidate, the empty string when it is absent
ValueOf(data, field) == IF Has(data, field) THEN data[field] ELSE <<>>

\* The earliest violated check of a candidate in the stated order: required
\* type, title, date, time, then type enum, priority enum, date pattern,
\* time pattern; <<>> when none is violated
EarliestViolated(data) ==
    IF ValueOf(data, "type") = <<>>
    THEN <<[rule |-> "Missing required field", field |-> "type"]>>
    ELSE IF ValueOf(data, "title") = <<>>
    THEN <<[rule |-> "Missing required field", field |-> "title"]>>
    ELSE IF ValueOf(data, "date") = <<>>
    THEN <<[rule |-> "Missing required field", field |-> "date"]>>
    ELSE IF ValueOf(data, "time") = <<>>
    THEN <<[rule |-> "Missing required field", field |-> "time"]>>
    ELSE IF data["type"] \notin {v_meeting, v_reminder, v_task, v_appointment}
    THEN <<[rule |-> "Invalid type", field |-> "type"]>>
    ELSE IF ValueOf(data, "priority") \notin {<<>>, v_low, v_medium, v_high}
    THEN <<[rule |-> "Invalid priority", field |-> "priority"]>>
    ELSE IF ~FourTwoTwo(data["date"])
    THEN <<[rule |-> "Invalid date format", field |-> "date"]>>
    ELSE IF ~TwoColonTwo(data["time"])
    THEN <<[rule |-> "Invalid time format", field |-> "time"]>>
    ELSE <<>>

\* C25: the validator makes its checks in the order required type, title,
\* date, time, type enum, priority enum, date pattern, time pattern and
\* stops at the first that fails: the reason logged is that of the earliest
\* violated check, the check logged is the last one evaluated, and every
\* check evaluated before it passed.
C25_FirstFailureOnly ==
    fnOut.op = "validateScheduleData"
    => /\ fnOut.logged = EarliestViolated(fnData)
       /\ fnOut.has = (fnOut.logged = <<>>)
       /\ fnOut.evaluated = SubSeq(CheckOrder, 1, Len(fnOut.evaluated))
       /\ fnOut.logged = <<>> => fnOut.evaluated = CheckOrder
       /\ fnOut.logged # <<>>
            => /\ fnOut.evaluated[Len(fnOut.evaluated)] = fnOut.logged[1]
               /\ fnOut.logged[1].rule = validationFailure(fnData)
               /\ \A i \in 1..(Len(fnOut.evaluated) - 1) :
                    ~CheckFails(fnData, fnOut.evaluated[i])

\* C25 witness: a candidate without title, with a priority outside the enum
\* and a date and time that match no pattern was rejected for its title after
\* two checks
C25_Witness ==
    /\ fnOut.op = "validateScheduleData"
    /\ fnData = MakeCandidate(v_meeting, Absent, d_slashes, t_9am, v_urgent)
    /\ fnOut.logged = <<[rule |-> "Missing required field", field |-> "title"]>>
    /\ Len(fnOut.evaluated) = 2

\* C25 witness: a candidate whose only violated checks are the priority enum
\* and the time pattern was rejected for its priority
C25_WitnessPriorityBeforeTime ==
    /\ fnOut.op = "validateScheduleData"
    /\ fnData = MakeCandidate(v_meeting, v_title, d_20240115, t_9am, v_urgent)
    /\ fnOut.logged = <<[rule |-> "Invalid priority", field |-> "priority"]>>

\* The fields of a candidate other than date and time
OtherFields(data) == (DOMAIN data) \ {"date", "time"}

\* C26: the override changes the candidate at most once in an invocation and
\* only in date and time: the candidate validated, and the record returned,
\* have every other field as it was parsed, and the candidate is the parsed
\* one when the override did not run.
C26_OnlyDateAndTimeChange ==
    (Replied /\ parsed # Null)
    => /\ OtherFields(processed) = OtherFields(parsed)
       /\ \A f \in OtherFields(parsed) : processed[f] = parsed[f]
       /\ Occurrences("calculateRelativeTime") <= 1
       /\ Occurrences("postProcessScheduleData") = 1
       /\ Occurrences("calculateRelativeTime") = 0 => processed = parsed
       /\ result.success
            => /\ result.data = processed
               /\ \A f \in OtherFields(parsed) : result.data[f] = parsed[f]

\* C26 witness: a record with a priority was returned whose date or time
\* the override changed
C26_Witness ==
    /\ Replied
    /\ result.success
    /\ Occurrences("calculateRelativeTime") = 1
    /\ result.data # parsed
    /\ Has(parsed, "priority")
    /\ result.data["priority"] = parsed["priority"]
    /\ result.data["title"] = parsed["title"]

\* C26 witness: a record was returned that the override did not touch
C26_WitnessNoOverride ==
    /\ Replied
    /\ result.success
    /\ Occurrences("calculateRelativeTime") = 0
    /\ result.data = parsed

\* The steps of processSchedulePrompt in the order of its statements
StepOrder ==
    <<"createPrompt", "generateContent", "match", "JSON.parse",
      "postProcessScheduleData", "calculateRelativeTime",
      "validateScheduleData", "return">>

\* The steps taken are steps of StepOrder, in its order, each at most once
\* ("catch", which ends a failed invocation, aside)
InStepOrder ==
    \A i \in 1..Len(steps) : \A j \in 1..Len(steps) :
        (i < j /\ steps[j] # "catch")
        => \E a \in 1..Len(StepOrder) : \E b \in 1..Len(StepOrder) :
             a < b /\ steps[i] = StepOrder[a] /\ steps[j] = StepOrder[b]

\* C27: within an invocation the model call completes, then the reply is
\* parsed, then the override is applied if any, then the candidate is
\* validated, then the result is returned: there is no result while the
\* model call is pending, and the validator is given the candidate as the
\* override left it.
C27_StepsInOrder ==
    /\ InStepOrder
    /\ pc = "pending"
         => /\ result = Failure("")
            /\ steps = <<"createPrompt", "generateContent">>
            /\ parsed = Null /\ processed = Null
    /\ (pc = "done" /\ Occurrences("validateScheduleData") = 1)
         => /\ Occurrences("JSON.parse") = 1
            /\ Occurrences("postProcessScheduleData") = 1
            /\ (overrideAt >= 0) = (Occurrences("calculateRelativeTime") = 1)
            /\ result.success = validateScheduleData(processed)
            /\ result.success = (steps[Len(steps)] = "return")
    /\ (pc = "done" /\ result.success)
         => /\ Occurrences("validateScheduleData") = 1
            /\ result.data = processed
    /\ pc = "done" => steps[Len(steps)] \in {"return", "catch"}

\* C27 witness: a record was returned for a reply whose candidate would not
\* have passed the validator before the override
C27_Witness ==
    /\ pc = "done"
    /\ result.success
    /\ Occurrences("calculateRelativeTime") = 1
    /\ ~validateScheduleData(parsed)
    /\ validateScheduleData(processed)

\* C27 witness: the model call is pending and nothing has been returned
C27_WitnessPending ==
    /\ pc = "pending"
    /\ result = Failure("")
    /\ elapsed > 0

\* The prompt has a quantified relative phrase, of either form
Quantified(prompt) == InPositions(prompt) # {} \/ FromNowPositions(prompt) # {}

\* The type and the title are present and non-empty, the type is one of the
\* four and the priority, when present and non-empty, one of the three
TypeTitlePriorityPass(data) ==
    /\ ValueOf(data, "type") \in {v_meeting, v_reminder, v_task, v_appointment}
    /\ ValueOf(data, "title") # <<>>
    /\ ValueOf(data, "priority") \in {<<>>, v_low, v_medium, v_high}

C28_WitnessMissing ==
    /\ Replied
    /\ Quantified(userPrompt)
    /\ result.success
    /\ ~Has(parsed, "date") /\ ~Has(parsed, "time")

\* C28 witness: for a prompt with a quantified phrase a reply was rejected
\* for its type
C28_WitnessRejected ==
    /\ Replied
    /\ Quantified(userPrompt)
    /\ parsed # Null
    /\ ~result.success
    /\ ~TypeTitlePriorityPass(parsed)

\* Database.getConnectionStatus()
getConnectionStatus == db.isConnected

\* C30: after any connects, disconnects and driver events
\* getConnectionStatus() is true only if a connect has succeeded and the
\* last of the events connect succeeded, disconnect, error, disconnected,
\* reconnected is a successful connect or a reconnect, and it is true then;
\* a connect while connected and a disconnect while not connected change
\* nothing; a connect that fails leaves the status as it was, false when no
\* connect has succeeded.
C30_StatusFollowsEvents ==
    /\ getConnectionStatus
         = (db.everConnected
            /\ db.lastStatus \in {"connect succeeded", "reconnected"})
    /\ db.last = "connect: already connected"
         => DbState(db) = db.prev /\ getConnectionStatus
    /\ db.last = "disconnect: not connected"
         => DbState(db) = db.prev /\ ~getConnectionStatus
    /\ db.last \in {"connect: failed", "connect: MONGODB_URI not defined"}
         => /\ getConnectionStatus = db.prev.isConnected
            /\ db.listeners = db.prev.listeners
            /\ ~db.everConnected => ~getConnectionStatus
    /\ ~db.uri => ~getConnectionStatus /\ db.connecting = 0
    /\ db.everConnected = (db.listeners > 0)

\* C30 witness: after a successful connect and an error event the status is
\* false, and it is true again after the reconnect that followed
C30_Witness ==
    /\ db.last = "reconnected"
    /\ db.prev.isConnected = FALSE
    /\ db.everConnected
    /\ getConnectionStatus

\* C30 witness: the status is false after an error event that followed a
\* successful connect
C30_WitnessError ==
    /\ db.last = "error"
    /\ db.prev.isConnected
    /\ ~getConnectionStatus

\* C30 witness: a connect was called while connected
C30_WitnessConnectNoOp ==
    /\ db.last = "connect: already connected"
    /\ getConnectionStatus

\* C30 witness: a connect failed and the status is false
C30_WitnessConnectFailed ==
    /\ db.last = "connect: failed"
    /\ ~getConnectionStatus

====
